---- MODULE Spec2Model ----
(***************************************************************************)
(* A model of the AWS project planning tool: the two browser price         *)
(* scrapers (Selenium and pyppeteer), the CLI end-to-end workflow and the  *)
(* API endpoints that work through files.  One run of the model is one     *)
(* run of one of these programs; `mode` says which.                        *)
(***************************************************************************)
EXTENDS Integers, Sequences, FiniteSets, TLC

VARIABLES
    mode,             \* which program this behaviour runs
    \* ---- browser get_price_estimate: arguments and constructor settings
    resources,        \* the resource list (the service of each ResourceConfig)
    debug,            \* self.debug
    screenshot_path,  \* TRUE when a screenshot_path was passed
    debug_dir,        \* TRUE when a debug_dir was passed
    \* ---- browser get_price_estimate: execution state
    pc,               \* position in get_price_estimate
    browser,          \* the browser process: "none", "open", "closed"
    status,           \* 'status' of the dictionary being returned, or "none"
    raised,           \* TRUE when an exception left get_price_estimate
    failure,          \* the step that failed, or "none"
    seen,             \* outcome of each element wait
    manual,           \* TRUE once the manual add-service loop was entered
    attempted,        \* indexes of the resources an attempt was started for
    addOk,            \* result of each finished add-service attempt
    artifacts,        \* files saved so far (debug screenshots are not tracked)
    errShot,          \* TRUE once the error screenshot was attempted
    extracted,        \* price extraction: "none", "ok", "failed"
    pricing,          \* Selenium: the dictionary _extract_price_data returned
    add,              \* state of the add-service attempt in progress
    \* ---- CLI workflow end-to-end
    cli,
    \* ---- API endpoints
    api,
    \* ---- AWSPriceCalculator
    price,            \* one call of _get_ec2_price, _get_rds_price or _get_s3_price
    calc,             \* one call of calculate_total_cost
    \* ---- AWSWebCalculator
    web,              \* one call of generate_calculator_url or _encode_calculator_data
    \* ---- PricingService
    report,           \* one call of generate_cost_report
    \* ---- SOWService
    sow,              \* one call of create_sow, and the files it works with
    tm,               \* one TemplateManager and its template directory
    diagram,          \* one call of DiagramService._create_connections
    safeClick,        \* one call of the pyppeteer _safe_click
    saveCall          \* one call of save_price_estimate

libVars == << price, calc, web, report, sow, tm, diagram, safeClick, saveCall >>

\* the library variables other than the one an action changes
notPrice == << calc, web, report, sow, tm, diagram, safeClick, saveCall >>
notCalc == << price, web, report, sow, tm, diagram, safeClick, saveCall >>
notWeb == << price, calc, report, sow, tm, diagram, safeClick, saveCall >>
notReport == << price, calc, web, sow, tm, diagram, safeClick, saveCall >>
notSow == << price, calc, web, report, tm, diagram, safeClick, saveCall >>
notTm == << price, calc, web, report, sow, diagram, safeClick, saveCall >>
notDiagram == << price, calc, web, report, sow, tm, safeClick, saveCall >>
notClick == << price, calc, web, report, sow, tm, diagram, saveCall >>
notSave == << price, calc, web, report, sow, tm, diagram, safeClick >>

vars == << mode, resources, debug, screenshot_path, debug_dir, pc,
           browser, status, raised, failure, seen, manual, attempted, addOk,
           artifacts, errShot, extracted, pricing, add, cli, api, libVars >>

inputVars == << mode, resources, debug, screenshot_path, debug_dir >>

estVars == << pc, browser, status, raised, failure, seen, manual, attempted,
              addOk, artifacts, errShot, extracted, pricing, add >>

\* ------------------------------------------------------------------ bounds

\* longest resource list passed to get_price_estimate
MaxResources == 2

\* number of API requests in flight together
MaxRequests == 2

\* longest PriceList of a pricing API response
MaxPriceList == 2

\* longest resource list passed to calculate_total_cost
MaxPriced == 2

\* longest resource list passed to generate_calculator_url
MaxConverted == 2

\* create_template calls on one TemplateManager
MaxCreates == 2

\* longest connection list passed to _create_connections
MaxConnections == 2

\* ------------------------------------------------------- program constants

\* max_iterations of the LLM-guided loop
max_iterations == 15

\* services a resource may name: "ec2" stands for the services that
\* service_name_map holds, "sqs" for every service that it does not
Services == {"ec2", "sqs"}

\* service_name_map of _add_service_manually (both calculators)
service_name_map == {"ec2", "rds", "s3"}

\* the actions the LLM answers besides 'complete' and 'error': "click"
\* stands for those that touch the page (click, input, select) and may
\* fail, "wait" only sleeps
LlmActions == {"click", "wait"}

RECURSIVE SeqsUpTo(_, _)
SeqsUpTo(S, n) ==
    IF n = 0 THEN {<< >>}
    ELSE LET shorter == SeqsUpTo(S, n - 1)
         IN  shorter \cup {Append(s, x) : s \in {t \in shorter : Len(t) = n - 1}, x \in S}

Range(s) == {s[i] : i \in 1..Len(s)}

\* ------------------------------------------- add-service attempt (state)

\* the attempt record before any attempt, and between attempts
NoAdd ==
    [phase |-> "none", probe |-> "none", iterations |-> 0,
     detRuns |-> 0, detResult |-> "none", loopRaised |-> FALSE,
     step |-> "none", ran |-> {}, rerun |-> FALSE,
     failedActs |-> {}, retried |-> FALSE, tried |-> << >>, clicks |-> << >>,
     result |-> "none", why |-> "none"]

\* ------------------------------------- deterministic add-service flow

\* outcomes of one UI step: it worked, it reported failure (a wait that
\* timed out, a click that found nothing), or it raised
Outcomes == {"ok", "fail", "raise"}

\* number of comma-separated alternatives of the SELECTORS entry a
\* pyppeteer step uses: two for 'service_container', three for the others
Alternatives(step) == IF step = "wait_added" THEN 2 ELSE 3

\* what the page holds for one alternative: elements that match it, none,
\* or a state in which evaluating anything raises; and how the evaluation
\* of one alternative ends
Evaluations == {"match", "none", "raise"}

\* the alternatives of the step's selector list (add_service_button,
\* service_search, service_results with and without :has-text appended,
\* service_config_done, service_container): "quoted" is a CSS selector
\* that holds a double quote, "has_text" one that uses :has-text("..."),
\* which no element matches in querySelectorAll
SelectorKinds(step) ==
    CASE step = "click_add" -> << "plain", "has_text", "plain" >>
      [] step = "wait_search" -> << "quoted", "plain", "quoted" >>
      [] step = "click_service" -> << "plain", "plain", "has_text" >>
      [] step = "click_generic" -> << "plain", "plain", "quoted" >>
      [] step = "click_done" -> << "plain", "plain", "has_text" >>
      [] step = "wait_added" -> << "plain", "plain" >>

\* the pages a step may meet: what the page holds for each alternative
Pages(step) ==
    {dom \in [1..Alternatives(step) -> Evaluations] :
       \A i \in 1..Alternatives(step) :
          SelectorKinds(step)[i] = "has_text" => dom[i] # "match"}

\* an evaluation that embeds every alternative as it should
EvaluateEscaped(step, dom) == dom

\* page.evaluate(f'document.querySelectorAll("{selector}").length') for
\* each alternative: the selector is put between double quotes as it is, so
\* one that holds a double quote is not a JavaScript expression and raises
Evaluate(step, dom) ==
    [i \in DOMAIN dom |->
        IF SelectorKinds(step)[i] # "plain" THEN "raise" ELSE dom[i]]

\* _find_active_selector: index of the first alternative with count > 0,
\* 0 for None; an alternative that raises is skipped
RECURSIVE FindActiveFrom(_, _, _)
FindActiveFrom(i, n, page) ==
    IF i > n THEN 0
    ELSE IF page[i] = "match" THEN i
    ELSE FindActiveFrom(i + 1, n, page)

FindActiveSelector(n, page) == FindActiveFrom(1, n, page)

\* the alternatives _find_active_selector evaluates, in the order it does
RECURSIVE EvaluatedFrom(_, _, _)
EvaluatedFrom(i, n, page) ==
    IF i > n THEN << >>
    ELSE IF page[i] = "match" THEN << i >>
    ELSE << i >> \o EvaluatedFrom(i + 1, n, page)

EvaluatedSelectors(n, page) == EvaluatedFrom(1, n, page)

\* pyppeteer _wait_for_selector on a selector list: None when no
\* alternative is active, otherwise the result of waiting for the active one
PypWaitForSelector(n, page, out) ==
    IF FindActiveSelector(n, page) = 0 THEN "fail" ELSE out

\* the steps of the pyppeteer flow that go through _safe_click
PypClickSteps == {"click_add", "click_service", "click_generic", "click_done"}

\* the steps of the Selenium flow that go through _safe_click
SelClickSteps ==
    {"click_add", "click_service", "click_generic", "click_configure", "click_save"}

\* how the wait for the element to click ends
Waits == {"element", "none", "raise"}

\* pyppeteer _safe_click: False when no alternative is active or the wait
\* for the active one times out; otherwise a click and, when that raises,
\* a click through page.evaluate
PypSafeClick(n, page, found, click, js) ==
    IF FindActiveSelector(n, page) = 0 THEN "fail"
    ELSE CASE found = "raise" -> "raise"
           [] found = "none" -> "fail"
           [] OTHER -> IF click \/ js THEN "ok" ELSE "fail"

\* the clicks pyppeteer _safe_click made, in the order it made them
PypClickMethods(n, page, found, click, js) ==
    IF FindActiveSelector(n, page) = 0 \/ found # "element" THEN << >>
    ELSE IF click THEN << "click" >>
    ELSE << "click", "evaluate" >>

\* the click steps whose selector holds :contains(...), which _safe_click
\* first handles by looking for an element with that text
TextSelector(step) ==
    step \in {"click_add", "click_service", "click_configure", "click_save"}

\* the click steps whose selector starts with none of '.', '#', '[', for
\* which _safe_click has a last-resort XPath click
LastResort(step) == step = "click_save"

\* the text search of _safe_click: no element with the text, or one that
\* the native click worked on, or the JavaScript click, or neither
TextClicks == {"none", "click", "execute_script", "fail"}

\* Selenium _safe_click on the selector of `step`: the text search, then
\* the wait for a clickable element with a native click and, when that
\* raises, a JavaScript click; without an element the last resort
SelSafeClick(step, text, found, click, js, last) ==
    IF TextSelector(step) /\ text \in {"click", "execute_script"} THEN "ok"
    ELSE CASE found = "raise" -> "raise"
           [] found = "none" -> IF LastResort(step) /\ last THEN "ok" ELSE "fail"
           [] OTHER -> IF click \/ js THEN "ok" ELSE "fail"

\* the clicks _safe_click made, in the order it made them
SelClickMethods(step, text, found, click, js, last) ==
    LET first == IF ~TextSelector(step) \/ text = "none" THEN << >>
                 ELSE IF text = "click" THEN << "text_click" >>
                 ELSE << "text_click", "text_execute_script" >>
        rest == IF TextSelector(step) /\ text \in {"click", "execute_script"}
                THEN << >>
                ELSE IF found = "element"
                THEN (IF click THEN << "click" >>
                      ELSE << "click", "execute_script" >>)
                ELSE IF found = "none" /\ LastResort(step)
                THEN << "xpath_click" >>
                ELSE << >>
    IN  first \o rest

\* first step of _add_service_manually: a service that service_name_map
\* does not hold returns False at once
DetFirst(service) ==
    IF service \in service_name_map THEN "click_add" ELSE "False"

\* a flow that clicks or waits again after a step reported failure
SelDetNextRetry(step, out) ==
    IF out = "fail" THEN step
    ELSE IF out = "raise" THEN "False"
    ELSE IF step = "click_save" THEN "True" ELSE "click_save"

\* Selenium _add_service_manually: the step after `step`, or the result
SelDetNext(step, out) ==
    CASE step = "click_add"       -> IF out = "ok" THEN "wait_search" ELSE "False"
      [] step = "wait_search"     -> IF out = "ok" THEN "click_service" ELSE "False"
      [] step = "click_service"   -> IF out = "ok" THEN "click_configure"
                                     ELSE IF out = "fail" THEN "click_generic"
                                     ELSE "False"
      [] step = "click_generic"   -> IF out = "ok" THEN "js_click" ELSE "False"
      [] step = "js_click"        -> IF out = "ok" THEN "click_configure" ELSE "False"
      [] step = "click_configure" -> IF out = "ok" THEN "configure" ELSE "False"
      [] step = "configure"       -> IF out = "ok" THEN "click_save" ELSE "False"
      [] step = "click_save"      -> IF out = "ok" THEN "True" ELSE "False"

\* pyppeteer _add_service_manually: the step after `step`, or the result
PypDetNext(step, out) ==
    CASE step = "click_add"     -> IF out = "ok" THEN "wait_search" ELSE "False"
      [] step = "wait_search"   -> IF out = "ok" THEN "click_service" ELSE "False"
      [] step = "click_service" -> IF out = "ok" THEN "click_done"
                                   ELSE IF out = "fail" THEN "click_generic"
                                   ELSE "False"
      [] step = "click_generic" -> IF out = "ok" THEN "click_done" ELSE "False"
      [] step = "click_done"    -> IF out = "ok" THEN "wait_added" ELSE "False"
      [] step = "wait_added"    -> IF out = "raise" THEN "False" ELSE "True"

\* the attempt record after `step` was executed and led to `next`
RanStep(a, step, next) ==
    [a EXCEPT !.ran = @ \cup {step},
              !.rerun = @ \/ step \in a.ran,
              !.step = IF next \in {"True", "False"} THEN "none" ELSE next,
              !.detResult = IF next \in {"True", "False"} THEN next ELSE @]

\* entering _add_service_manually for `service`
StartDet(a, service) ==
    [a EXCEPT !.phase = "det",
              !.detRuns = @ + 1,
              !.step = IF DetFirst(service) = "False" THEN "none" ELSE DetFirst(service),
              !.detResult = IF DetFirst(service) = "False" THEN "False" ELSE "none"]

\* _add_service_manually returning: its result is the attempt's result
Settle(a) ==
    IF a.phase = "det" /\ a.detResult # "none"
    THEN [a EXCEPT !.phase = "finished", !.result = a.detResult,
                   !.why = "manual"]
    ELSE a

\* ------------------------------------------ LLM-guided add-service flow

\* a flow that enters the LLM loop whatever the probe said
FirstPhaseLlmAlways(probeOk) == "llm"

\* _add_service_manually_with_llm after the Bedrock probe: the LLM loop
\* when Bedrock answered, the deterministic flow when it did not
FirstPhase(probeOk) == IF probeOk THEN "llm" ELSE "det"

\* the attempt record when _add_service_manually_with_llm starts
SelStartAttempt(service, probeOk) ==
    IF FirstPhase(probeOk) = "llm"
    THEN [NoAdd EXCEPT !.phase = "llm", !.probe = IF probeOk THEN "ok" ELSE "fail"]
    ELSE Settle(StartDet([NoAdd EXCEPT !.probe = IF probeOk THEN "ok" ELSE "fail"],
                         service))

\* a loop that runs once more than max_iterations
LoopContinuesOnceMore(a) == a.iterations <= max_iterations

\* the `while iterations < max_iterations` test
LoopContinues(a) == a.iterations < max_iterations

\* one iteration of the loop whose LLM answer is 'complete' or 'error'
LlmVerdict(a, answer) ==
    [a EXCEPT !.iterations = @ + 1,
              !.phase = "finished",
              !.result = IF answer = "complete" THEN "True" ELSE "False",
              !.why = answer]

\* one iteration of the loop that executes the action the LLM suggested
LlmExecuted(a, act, ok) ==
    [a EXCEPT !.iterations = @ + 1,
              !.retried = @ \/ act \in a.failedActs,
              !.failedActs = IF ok THEN @ ELSE @ \cup {act}]

\* an iteration that raises (iterations is incremented first): the handler
\* of the outer try falls back to _add_service_manually
LlmFallback(a, service) ==
    Settle(StartDet([a EXCEPT !.loopRaised = TRUE, !.iterations = @ + 1],
                    service))

\* ------------------------------------------------- the for-resource loop

\* a loop that stops at the first failed attempt
LoopNextBreak(done, oks, rs) ==
    IF Len(oks) > 0 /\ ~oks[Len(oks)] THEN 0
    ELSE IF Len(done) < Len(rs) THEN Len(done) + 1 ELSE 0

\* index of the resource the loop takes next, 0 when the loop has ended
LoopNext(done, oks, rs) ==
    IF Len(done) < Len(rs) THEN Len(done) + 1 ELSE 0

\* ------------------------------------------------ get_price_estimate

Estimating == mode \in {"selenium", "pyppeteer"}

\* every element wait before it ran
NotSeen ==
    [total |-> "unknown", header |-> "unknown", header2 |-> "unknown",
     loading |-> "unknown"]

\* the finally clause: pyppeteer always closes the browser, Selenium quits
\* the driver unless self.debug
ClosesBrowser(m, dbg) == m = "pyppeteer" \/ ~dbg

\* an except clause that takes the error screenshot unconditionally
TakesErrorScreenshotAlways(path) == TRUE

\* the except clause takes the error screenshot only when a
\* screenshot_path was passed
TakesErrorScreenshot(path) == path

\* _debug_page (Selenium) and _debug_page_structure (pyppeteer) write the
\* page HTML and a screenshot only in debug mode and with a directory
WritesDebugFiles(m, dbg, dir, path) ==
    IF m = "selenium" THEN dir /\ dbg ELSE dbg /\ (dir \/ path)

\* Chrome arguments that depend on the settings: self.headless only adds
\* --headless=new, self.debug the devtools and detach options
SelChromeOptions(headless, dbg) ==
    (IF headless THEN {"--headless=new"} ELSE {})
        \cup (IF dbg THEN {"--auto-open-devtools-for-tabs", "detach"} ELSE {})

\* pyppeteer launch arguments that depend on the settings
PypBrowserArgs(headless, dbg) ==
    IF dbg /\ ~headless
    THEN {"--auto-open-devtools-for-tabs", "--disable-web-security"} ELSE {}

\* Selenium _setup_driver, called before the try block.  webdriver.Chrome
\* may raise (no browser), set_window_size / implicitly_wait may raise
\* after Chrome started (the driver is never returned, so never quit).
\* self.headless is read here and nowhere else.
SelSetupDriver ==
    /\ mode = "selenium" /\ pc = "start"
    /\ \E headless \in BOOLEAN, out \in {"ok", "no_driver", "configure_failed"} :
         /\ SelChromeOptions(headless, debug) \subseteq
                {"--headless=new", "--auto-open-devtools-for-tabs", "detach"}
         /\ browser' = IF out = "no_driver" THEN "none" ELSE "open"
         /\ pc' = IF out = "ok" THEN "navigate" ELSE "done"
         /\ raised' = (out # "ok")
         /\ failure' = IF out = "ok" THEN "none" ELSE "launch"
    /\ UNCHANGED << inputVars, status, seen, manual, attempted, addOk,
                    artifacts, errShot, extracted, pricing, add, cli, api, libVars >>

\* pyppeteer _launch_browser, called before the try block; self.headless
\* is read here and nowhere else
PypLaunchBrowser ==
    /\ mode = "pyppeteer" /\ pc = "start"
    /\ \E headless \in BOOLEAN, ok \in BOOLEAN :
         /\ PypBrowserArgs(headless, debug) \subseteq
                {"--auto-open-devtools-for-tabs", "--disable-web-security"}
         /\ browser' = IF ok THEN "open" ELSE "none"
         /\ pc' = IF ok THEN "new_page" ELSE "done"
         /\ raised' = ~ok
         /\ failure' = IF ok THEN "none" ELSE "launch"
    /\ UNCHANGED << inputVars, status, seen, manual, attempted, addOk,
                    artifacts, errShot, extracted, pricing, add, cli, api, libVars >>

\* pyppeteer browser.newPage(), still before the try block
PypNewPage ==
    /\ mode = "pyppeteer" /\ pc = "new_page"
    /\ \E ok \in BOOLEAN :
         /\ pc' = IF ok THEN "navigate" ELSE "done"
         /\ raised' = ~ok
         /\ failure' = IF ok THEN "none" ELSE "page"
    /\ UNCHANGED << inputVars, browser, status, seen, manual, attempted,
                    addOk, artifacts, errShot, extracted, pricing, add, cli, api, libVars >>

\* driver.get(calculator_url) / page.setViewport and page.goto
EstNavigate ==
    /\ Estimating /\ pc = "navigate"
    /\ \E ok \in BOOLEAN :
         /\ pc' = IF ok THEN "debug_page" ELSE "except"
         /\ failure' = IF ok THEN failure ELSE "navigate"
    /\ UNCHANGED << inputVars, browser, status, raised, seen, manual,
                    attempted, addOk, artifacts, errShot, extracted, pricing, add,
                    cli, api, libVars >>

\* the early debug capture: best effort, each file may or may not be written
EstDebugPage ==
    /\ Estimating /\ pc = "debug_page"
    /\ \E files \in SUBSET {"page_html"} :
         artifacts' = IF WritesDebugFiles(mode, debug, debug_dir, screenshot_path)
                      THEN artifacts \cup files ELSE artifacts
    /\ \E makedirsRaises \in BOOLEAN :
         \* Selenium _debug_page calls os.makedirs outside its try blocks
         /\ makedirsRaises => (mode = "selenium" /\ debug /\ debug_dir)
         /\ pc' = IF makedirsRaises THEN "except"
                  ELSE IF mode = "selenium" THEN "check_total" ELSE "wait_header"
         /\ failure' = IF makedirsRaises THEN "debug" ELSE failure
    /\ UNCHANGED << inputVars, browser, status, raised, seen, manual,
                    attempted, addOk, errShot, extracted, pricing, add, cli, api, libVars >>

\* a wait whose result does not decide about the manual flow
SelAfterTotalAlways(out) ==
    IF out = "raise" THEN "except" ELSE "add_loop"

\* Selenium: where get_price_estimate goes after the wait for the
\* total-price element
SelAfterTotal(out) ==
    CASE out = "found" -> "screenshot"
      [] out = "timeout" -> "add_loop"
      [] out = "raise" -> "except"

\* Selenium: WebDriverWait(5) for the total-price element.  TimeoutException
\* starts the manual flow; any other exception goes to the except clause.
SelCheckTotal ==
    /\ mode = "selenium" /\ pc = "check_total"
    /\ \E out \in {"found", "timeout", "raise"} :
         /\ seen' = [seen EXCEPT !.total = out]
         /\ manual' = (SelAfterTotal(out) = "add_loop")
         /\ pc' = SelAfterTotal(out)
         /\ failure' = IF out = "raise" THEN "wait" ELSE failure
    /\ UNCHANGED << inputVars, browser, status, raised, attempted, addOk,
                    artifacts, errShot, extracted, pricing, add, cli, api, libVars >>

\* pyppeteer: wait for the page header after the first navigation
PypWaitHeader ==
    /\ mode = "pyppeteer" /\ pc = "wait_header"
    /\ \E out \in {"found", "timeout", "raise"} :
         /\ seen' = [seen EXCEPT !.header = out]
         /\ pc' = CASE out = "found" -> "wait_loading"
                    [] out = "timeout" -> "goto_base"
                    [] out = "raise" -> "except"
         /\ failure' = IF out = "raise" THEN "wait" ELSE failure
    /\ UNCHANGED << inputVars, browser, status, raised, manual, attempted,
                    addOk, artifacts, errShot, extracted, pricing, add, cli, api, libVars >>

\* pyppeteer: page.goto(CALCULATOR_URL) after the header was not found
PypGotoBase ==
    /\ mode = "pyppeteer" /\ pc = "goto_base"
    /\ \E ok \in BOOLEAN :
         /\ pc' = IF ok THEN "wait_header2" ELSE "except"
         /\ failure' = IF ok THEN failure ELSE "navigate"
    /\ UNCHANGED << inputVars, browser, status, raised, seen, manual,
                    attempted, addOk, artifacts, errShot, extracted, pricing, add,
                    cli, api, libVars >>

\* pyppeteer: wait for the header again; without it the estimate fails,
\* with it the services are added manually
PypWaitHeaderAgain ==
    /\ mode = "pyppeteer" /\ pc = "wait_header2"
    /\ \E out \in {"found", "timeout", "raise"} :
         /\ seen' = [seen EXCEPT !.header2 = out]
         /\ manual' = (out = "found")
         /\ pc' = IF out = "found" THEN "add_loop" ELSE "except"
         /\ failure' = IF out = "found" THEN failure
                       ELSE IF out = "timeout" THEN "page_load" ELSE "wait"
    /\ UNCHANGED << inputVars, browser, status, raised, attempted, addOk,
                    artifacts, errShot, extracted, pricing, add, cli, api, libVars >>

\* `for resource in resources`: take the next resource and start its
\* add-service attempt, or leave the loop
EstLoop ==
    /\ Estimating /\ pc = "add_loop"
    /\ LET i == LoopNext(attempted, addOk, resources) IN
         IF i = 0
         THEN /\ pc' = IF mode = "selenium" THEN "screenshot" ELSE "wait_loading"
              /\ UNCHANGED << attempted, add >>
         ELSE /\ pc' = "adding"
              /\ attempted' = Append(attempted, i)
              /\ IF mode = "selenium"
                 THEN \E probeOk \in BOOLEAN :
                        add' = SelStartAttempt(resources[i], probeOk)
                 ELSE add' = Settle(StartDet(NoAdd, resources[i]))
    /\ UNCHANGED << inputVars, browser, status, raised, failure, seen, manual,
                    addOk, artifacts, errShot, extracted, pricing, cli, api, libVars >>

\* the resource whose attempt is in progress
Current == resources[attempted[Len(attempted)]]

\* Selenium: one iteration of the LLM loop.  Reading driver.page_source or
\* the answer may raise, which the outer handler turns into the
\* deterministic flow.
SelLlmIteration ==
    /\ mode = "selenium" /\ pc = "adding" /\ add.phase = "llm"
    /\ LoopContinues(add)
    /\ \E answer \in {"complete", "error", "raise"} \cup LlmActions :
       \E ok \in IF answer = "click" THEN BOOLEAN ELSE {TRUE} :
         add' = CASE answer = "raise" -> LlmFallback(add, Current)
                  [] answer \in {"complete", "error"} -> LlmVerdict(add, answer)
                  [] OTHER -> LlmExecuted(add, answer, ok)
    /\ UNCHANGED << inputVars, pc, browser, status, raised, failure, seen,
                    manual, attempted, addOk, artifacts, errShot, extracted, pricing,
                    cli, api, libVars >>

\* Selenium: the loop ran max_iterations times without 'complete'
SelLlmExhausted ==
    /\ mode = "selenium" /\ pc = "adding" /\ add.phase = "llm"
    /\ ~LoopContinues(add)
    /\ add' = [add EXCEPT !.phase = "finished", !.result = "False",
                          !.why = "exhausted"]
    /\ UNCHANGED << inputVars, pc, browser, status, raised, failure, seen,
                    manual, attempted, addOk, artifacts, errShot, extracted, pricing,
                    cli, api, libVars >>

\* Selenium: one step of _add_service_manually; a click step is a call of
\* _safe_click
SelDetStep ==
    /\ mode = "selenium" /\ pc = "adding" /\ add.phase = "det"
    /\ LET step == add.step
           clicks == step \in SelClickSteps
       IN  \* each input is drawn only where the step reads it
           \E out \in IF clicks THEN {"ok"} ELSE Outcomes,
              text \in IF clicks /\ TextSelector(step) THEN TextClicks ELSE {"none"} :
           LET waits == clicks /\ text \notin {"click", "execute_script"} IN
           \E found \in IF waits THEN Waits ELSE {"element"} :
           \E click \in IF waits /\ found = "element" THEN BOOLEAN ELSE {TRUE},
              last \in IF waits /\ found = "none" /\ LastResort(step)
                       THEN BOOLEAN ELSE {TRUE} :
           \E js \in IF click THEN {TRUE} ELSE BOOLEAN :
           LET safe == SelSafeClick(step, text, found, click, js, last)
               eff == IF clicks THEN safe ELSE out
               how == IF clicks
                      THEN SelClickMethods(step, text, found, click, js, last)
                      ELSE << >>
               \* a failed 'Add service' click dumps the page in debug mode
               dumps == step = "click_add" /\ debug /\ safe = "fail"
           IN  /\ add' = Settle([RanStep(add, step, SelDetNext(step, eff))
                                    EXCEPT !.clicks = how])
               /\ \E files \in IF dumps THEN SUBSET {"page_html"} ELSE {{}} :
                    artifacts' = artifacts \cup files
    /\ UNCHANGED << inputVars, pc, browser, status, raised, failure, seen,
                    manual, attempted, addOk, errShot, extracted, pricing, cli, api, libVars >>

\* pyppeteer: one step of _add_service_manually; every click and wait
\* first looks for the active alternative of its selector list
PypDetStep ==
    /\ mode = "pyppeteer" /\ pc = "adding" /\ add.phase = "det"
    /\ LET step == add.step
           n == Alternatives(step)
           clicks == step \in PypClickSteps
       IN  \* each input is drawn only where the step reads it
           \E dom \in Pages(step) :
           LET page == Evaluate(step, dom)
               active == FindActiveSelector(n, page) # 0 IN
           \E out \in IF clicks \/ ~active THEN {"ok"} ELSE Outcomes,
              found \in IF clicks /\ active THEN Waits ELSE {"element"} :
           \E click \in IF clicks /\ active /\ found = "element"
                        THEN BOOLEAN ELSE {TRUE} :
           \E js \in IF click THEN {TRUE} ELSE BOOLEAN :
           LET eff == IF clicks THEN PypSafeClick(n, page, found, click, js)
                      ELSE PypWaitForSelector(n, page, out)
               how == IF clicks THEN PypClickMethods(n, page, found, click, js)
                      ELSE << >>
           IN  add' = Settle([RanStep(add, step, PypDetNext(step, eff))
                                EXCEPT !.tried = EvaluatedSelectors(n, page),
                                       !.clicks = how])
    /\ UNCHANGED << inputVars, pc, browser, status, raised, failure, seen,
                    manual, attempted, addOk, artifacts, errShot, extracted, pricing,
                    cli, api, libVars >>

\* the rest of the loop body: Selenium takes a per-service error
\* screenshot after a failed attempt (best effort); pyppeteer ignores
\* the result
EstAttemptDone ==
    /\ Estimating /\ pc = "adding" /\ add.phase = "finished"
    /\ addOk' = Append(addOk, add.result = "True")
    /\ \E saved \in BOOLEAN :
         artifacts' = IF mode = "selenium" /\ add.result = "False"
                         /\ screenshot_path /\ saved
                      THEN artifacts \cup {"service_error_screenshot"}
                      ELSE artifacts
    /\ add' = NoAdd
    /\ pc' = "add_loop"
    /\ UNCHANGED << inputVars, browser, status, raised, failure, seen, manual,
                    attempted, errShot, extracted, pricing, cli, api, libVars >>

\* pyppeteer: wait for the pricing to load; not found is only a warning
PypWaitLoading ==
    /\ mode = "pyppeteer" /\ pc = "wait_loading"
    /\ \E out \in {"found", "timeout", "raise"} :
         /\ seen' = [seen EXCEPT !.loading = out]
         /\ pc' = IF out = "raise" THEN "except" ELSE "screenshot"
         /\ failure' = IF out = "raise" THEN "wait" ELSE failure
    /\ UNCHANGED << inputVars, browser, status, raised, manual, attempted,
                    addOk, artifacts, errShot, extracted, pricing, add, cli, api, libVars >>

\* the screenshot of the estimate, taken when a path was passed
EstScreenshot ==
    /\ Estimating /\ pc = "screenshot"
    /\ \E ok \in BOOLEAN :
         /\ ~ok => screenshot_path
         /\ pc' = IF ok THEN "extract" ELSE "except"
         /\ failure' = IF ok THEN failure ELSE "screenshot"
         /\ artifacts' = IF ok /\ screenshot_path
                         THEN artifacts \cup {"screenshot"} ELSE artifacts
    /\ UNCHANGED << inputVars, browser, status, raised, seen, manual,
                    attempted, addOk, errShot, extracted, pricing, add, cli, api, libVars >>

\* re.search(r'\$([\d,]+\.\d+|\d+)', text) and float() of the match without
\* its commas; 0 when the text holds no price
ParsePrice(text) ==
    CASE text = "$12.50" -> 125000
      [] text = "$1,200.00" -> 12000000
      [] OTHER -> 0

\* what _extract_price_data finds: `raises` when the wait for the total
\* price or a later lookup raises, the text of the total, and the price
\* texts of the service rows
PricePages ==
    [raises : BOOLEAN, total : {"$12.50", "$1,200.00", "Contact us"},
     rows : {<< >>, << "$12.50" >>}]

\* _extract_price_data with a handler that answers with what it found
ExtractPriceDataPartial(page) ==
    [total_monthly_cost |-> ParsePrice(page.total),
     raw_total |-> page.total,
     services |-> [i \in DOMAIN page.rows |->
                     [price |-> ParsePrice(page.rows[i]),
                      raw_price |-> page.rows[i]]]]

\* _extract_price_data: the total and the services read from the page, or
\* the dictionary of its except clause
ExtractPriceData(page) ==
    IF page.raises
    THEN [total_monthly_cost |-> 0, raw_total |-> "Error extracting data",
          services |-> << >>]
    ELSE [total_monthly_cost |-> ParsePrice(page.total),
          raw_total |-> page.total,
          services |-> [i \in DOMAIN page.rows |->
                          [price |-> ParsePrice(page.rows[i]),
                           raw_price |-> page.rows[i]]]]

\* Selenium _extract_price_data never raises: on failure it returns a zero
\* total and no services, and the estimate still has status 'success'
SelExtract ==
    /\ mode = "selenium" /\ pc = "extract"
    /\ \E page \in PricePages :
         /\ extracted' = IF page.raises THEN "failed" ELSE "ok"
         /\ failure' = IF page.raises THEN "extract" ELSE failure
         /\ pricing' = ExtractPriceData(page)
    /\ status' = "success"
    /\ pc' = "finally"
    /\ UNCHANGED << inputVars, browser, raised, seen, manual, attempted,
                    addOk, artifacts, errShot, add, cli, api, libVars >>

\* pyppeteer page.evaluate of the extraction script: a raise goes to the
\* except clause
PypExtract ==
    /\ mode = "pyppeteer" /\ pc = "extract"
    /\ \E ok \in BOOLEAN :
         /\ extracted' = IF ok THEN "ok" ELSE "failed"
         /\ failure' = IF ok THEN failure ELSE "extract"
         /\ status' = IF ok THEN "success" ELSE status
         /\ pc' = IF ok THEN "finally" ELSE "except"
    /\ UNCHANGED << inputVars, browser, raised, seen, manual, attempted,
                    addOk, artifacts, errShot, pricing, add, cli, api, libVars >>

\* the except clause: error screenshot (best effort) when a path was
\* passed, then the error dictionary
EstExcept ==
    /\ Estimating /\ pc = "except"
    /\ errShot' = TakesErrorScreenshot(screenshot_path)
    /\ \E saved \in BOOLEAN :
         artifacts' = IF TakesErrorScreenshot(screenshot_path) /\ saved
                      THEN artifacts \cup {"error_screenshot"} ELSE artifacts
    /\ status' = "error"
    /\ pc' = "finally"
    /\ UNCHANGED << inputVars, browser, raised, failure, seen, manual,
                    attempted, addOk, extracted, pricing, add, cli, api, libVars >>

\* the finally clause; quit() / close() raising replaces the return value
EstFinally ==
    /\ Estimating /\ pc = "finally"
    /\ \E ok \in BOOLEAN :
         /\ ~ok => ClosesBrowser(mode, debug)
         /\ browser' = IF ClosesBrowser(mode, debug) THEN "closed" ELSE browser
         /\ raised' = ~ok
         /\ status' = IF ok THEN status ELSE "none"
         /\ failure' = IF ~ok /\ failure = "none" THEN "close" ELSE failure
    /\ pc' = "done"
    /\ UNCHANGED << inputVars, seen, manual, attempted, addOk, artifacts,
                    errShot, extracted, pricing, add, cli, api, libVars >>

\* -------------------------------------------- CLI workflow end-to-end

\* the three deliverable steps, in the order end_to_end runs them
CliOrder == << "sow", "diagram", "pricing" >>

\* the workflow before it starts (and in runs of another program)
CliNew(pcv, save) ==
    [pc |-> pcv, save_configs |-> save, sow_config |-> "unset",
     generated |-> FALSE, steps |-> << >>, ats |-> << >>, calls |-> << >>,
     failed |-> {},
     reported |-> {}, outputs |-> {}, temp |-> {}, exit |-> "none"]

\* generate_configs_from_file builds the SOW configuration only when a
\* sow_output path was passed, which end_to_end does with --save-configs
GeneratedSowConfig(save) == IF save THEN "dict" ELSE "None"

\* a workflow that stops at the first failed step
CliAfterAbort(step, ok) ==
    IF ~ok THEN "done"
    ELSE CASE step = "generate" -> "sow"
           [] step = "sow" -> "diagram"
           [] step = "diagram" -> "pricing"
           [] step = "pricing" -> "summary"

\* a workflow that goes on when the configurations were not generated
CliAfterGoOn(step, ok) ==
    CASE step = "generate" -> "sow"
      [] step = "sow" -> "diagram"
      [] step = "diagram" -> "pricing"
      [] step = "pricing" -> "summary"

\* where end_to_end goes after a step: a failed generation of the
\* configurations leaves the outer try block; the three deliverable steps
\* go on whether they failed or not
CliAfter(step, ok) ==
    CASE step = "generate" -> IF ok THEN "sow" ELSE "done"
      [] step = "sow" -> "diagram"
      [] step = "diagram" -> "pricing"
      [] step = "pricing" -> "summary"

\* the points at which a step's try block can raise
CliFailPoints(c, step) ==
    IF step = "sow" /\ c.sow_config = "None"
    THEN {"temp_write", "service"}
    ELSE {"service", "none"}
            \cup (IF step = "pricing" THEN {"report_write"} ELSE {})
            \cup (IF c.save_configs THEN {} ELSE {"temp_write", "cleanup"})

\* the sub-steps of a step that ran before it raised at `at`
CliReached(at) ==
    CASE at = "temp_write" -> {}
      [] at = "service" -> {"temp"}
      [] at = "report_write" -> {"temp", "service"}
      [] at = "cleanup" -> {"temp", "service", "report", "output"}
      [] at = "none" -> {"temp", "service", "report", "output", "cleaned"}

\* makedirs, the service constructors and reading the notes, all inside
\* the outer try: a failure is reported and aborts the command
CliStart ==
    /\ mode = "cli" /\ cli.pc = "start"
    /\ \E ok \in BOOLEAN :
         cli' = IF ok THEN [cli EXCEPT !.pc = "generate"]
                ELSE [cli EXCEPT !.pc = "done", !.exit = "abort",
                                 !.reported = @ \cup {"workflow"}]
    /\ UNCHANGED << inputVars, estVars, api, libVars >>

\* Step 1: generate_configs_from_file; a failure aborts the command
CliGenerate ==
    /\ mode = "cli" /\ cli.pc = "generate"
    /\ \E ok \in BOOLEAN :
         LET next == CliAfter("generate", ok)
         IN  cli' = IF ok
                    THEN [cli EXCEPT !.pc = next, !.generated = TRUE,
                                     !.sow_config = GeneratedSowConfig(cli.save_configs)]
                    ELSE [cli EXCEPT !.pc = next,
                                     !.failed = @ \cup {"generate"},
                                     !.exit = IF next = "done" THEN "abort" ELSE @,
                                     !.reported = IF next = "done"
                                                  THEN @ \cup {"workflow"} ELSE @]
    /\ UNCHANGED << inputVars, estVars, api, libVars >>

\* Steps 2 to 4: each in its own try block.  Without --save-configs the
\* step writes a temporary config file and removes it after success; the
\* SOW step then passes **sow_config with sow_config None, which raises
\* before create_sow is entered.
CliStep ==
    /\ mode = "cli" /\ cli.pc \in Range(CliOrder)
    /\ \E at \in CliFailPoints(cli, cli.pc) :
         LET step == cli.pc
             did == CliReached(at)
             called == "service" \in did
                       \/ (at = "service" /\ ~(step = "sow" /\ cli.sow_config = "None"))
         IN  cli' = [cli EXCEPT
                 !.steps = Append(@, step),
                 !.ats = Append(@, at),
                 !.calls = IF called THEN Append(@, step) ELSE @,
                 !.failed = IF at = "none" THEN @ ELSE @ \cup {step},
                 !.reported = IF at = "none" THEN @ ELSE @ \cup {step},
                 !.outputs = IF "output" \in did THEN @ \cup {step} ELSE @,
                 !.temp = IF ~cli.save_configs /\ "temp" \in did /\ "cleaned" \notin did
                          THEN @ \cup {step} ELSE @,
                 !.pc = CliAfter(step, at = "none")]
    /\ UNCHANGED << inputVars, estVars, api, libVars >>

\* the closing summary; the command exits with code 0
CliSummary ==
    /\ mode = "cli" /\ cli.pc = "summary"
    /\ cli' = [cli EXCEPT !.pc = "done", !.exit = "ok"]
    /\ UNCHANGED << inputVars, estVars, api, libVars >>

\* --------------------------------------------------- API endpoints

\* the requests that may be in flight together
Requests == 1..MaxRequests

\* The endpoints work through files whose names come from the request:
\* temp/<filename> for POST /generate/from-file, and for POST
\* /workflow/end-to-end <name>_notes.txt and the <name>_*.yaml configs.
\* The requests of one run carry the same filename / project name, and
\* request r uploads content r.  `file` and `cfg` say what the shared
\* paths hold: nothing (Absent), or a file with a content, content 0
\* being the empty file (configs: the content they were generated from).
\* POST /workflow/end-to-end/file works through both: `upload` is its
\* temp/<filename> and `file` the notes file of the workflow it calls.
Absent == [exists |-> FALSE, content |-> 0]

Holding(c) == [exists |-> TRUE, content |-> c]

ApiNew(ep) ==
    [endpoint |-> ep,
     rpc |-> [r \in Requests |-> IF ep = "none" THEN "idle" ELSE "start"],
     file |-> Absent,
     upload |-> Absent,
     cfg |-> Absent,
     handle |-> [r \in Requests |-> "none"],
     read |-> [r \in Requests |-> {}],
     cfgRead |-> [r \in Requests |-> {}],
     generated |-> [r \in Requests |-> FALSE],
     steps |-> [r \in Requests |-> << >>],
     lost |-> [r \in Requests |-> FALSE],
     resp |-> [r \in Requests |-> "none"]]

\* the requests, other than r, that hold temp/<filename> open for writing
OthersWriting(r) == {o \in Requests \ {r} : api.handle[o] = "open"}

\* os.remove on a path: the name goes, a handle another request holds on
\* the file now writes to a file nobody can open
Unlinked(handles, r) ==
    [o \in Requests |-> IF o # r /\ handles[o] = "open" THEN "orphan" ELSE handles[o]]

\* the finally clause of generate_from_file removes temp/<filename> when
\* it exists
RemovesTemp(f) == f.exists

\* POST /generate/from-file up to `await file.read()`: the file is opened
\* with "wb" (created or truncated) and the handler yields
FromFileOpen(r) ==
    /\ mode = "api" /\ api.endpoint = "from_file" /\ api.rpc[r] = "start"
    /\ api' = [api EXCEPT !.rpc[r] = "opened",
                          !.file = Holding(0),
                          !.handle[r] = "open"]
    /\ UNCHANGED << inputVars, estVars, cli, libVars >>

\* the rest of the handler, which does not yield: write and close, read
\* the file back, generate, and remove the file in the finally clause
FromFileRest(r) ==
    /\ mode = "api" /\ api.endpoint = "from_file" /\ api.rpc[r] = "opened"
    /\ \E ok \in BOOLEAN :
         LET written == IF api.handle[r] = "orphan" THEN api.file ELSE Holding(r)
             found == written.exists
             removes == RemovesTemp(written)
         IN  api' = [api EXCEPT
                 !.rpc[r] = "done",
                 !.read[r] = {written},
                 !.generated[r] = found /\ ok,
                 !.resp[r] = IF found /\ ok THEN "ok" ELSE "500",
                 !.file = IF removes THEN Absent ELSE written,
                 !.lost = [o \in Requests |->
                             @[o] \/ (removes /\ o \in OthersWriting(r))],
                 !.handle = IF removes
                            THEN [Unlinked(@, r) EXCEPT ![r] = "none"]
                            ELSE [@ EXCEPT ![r] = "none"]]
    /\ UNCHANGED << inputVars, estVars, cli, libVars >>

\* end_to_end_workflow is a coroutine without an await: once the event
\* loop started it for a request, no other handler runs until it ends
HandlerFree(r) == \A o \in Requests \ {r} : api.rpc[o] \in {"start", "done"}

\* where end_to_end_workflow goes after a step: the whole handler is one
\* try block, so a failing step ends the request with HTTP 500
ApiAfter(step, ok) ==
    IF ~ok THEN "done"
    ELSE CASE step = "generate" -> "sow"
           [] step = "sow" -> "diagram"
           [] step = "diagram" -> "pricing"
           [] step = "pricing" -> "cleanup"

\* POST /workflow/end-to-end: write the notes to <name>_notes.txt
WorkflowWriteNotes(r) ==
    /\ mode = "api" /\ api.endpoint = "workflow" /\ api.rpc[r] = "start"
    /\ HandlerFree(r)
    /\ api' = [api EXCEPT !.rpc[r] = "generate",
                          !.file = Holding(r)]
    /\ UNCHANGED << inputVars, estVars, cli, libVars >>

\* Step 1: generate_configs_from_file reads the notes file and writes
\* the three config files
WorkflowGenerate(r) ==
    /\ mode = "api" /\ api.endpoint = "workflow" /\ api.rpc[r] = "generate"
    /\ \E ok \in BOOLEAN :
         LET found == api.file.exists
             done == found /\ ok
         IN  api' = [api EXCEPT
                 !.rpc[r] = ApiAfter("generate", done),
                 !.read[r] = {api.file},
                 !.generated[r] = done,
                 !.cfg = IF done THEN api.file ELSE @,
                 !.resp[r] = IF done THEN @ ELSE "500"]
    /\ UNCHANGED << inputVars, estVars, cli, libVars >>

\* Steps 2 to 4: create_sow from the configuration in memory,
\* create_diagram and estimate_from_config from the config files
WorkflowStep(r) ==
    /\ mode = "api" /\ api.endpoint = "workflow"
    /\ api.rpc[r] \in Range(CliOrder)
    /\ \E ok \in BOOLEAN :
         LET step == api.rpc[r] IN
         api' = [api EXCEPT
                 !.rpc[r] = ApiAfter(step, ok),
                 !.steps[r] = Append(@, step),
                 !.cfgRead[r] = IF step = "sow" THEN @ ELSE @ \cup {api.cfg},
                 !.resp[r] = IF ok THEN @ ELSE "500"]
    /\ UNCHANGED << inputVars, estVars, cli, libVars >>

\* the success path removes the notes file when it exists and answers
WorkflowCleanup(r) ==
    /\ mode = "api" /\ api.endpoint = "workflow" /\ api.rpc[r] = "cleanup"
    /\ api' = [api EXCEPT
                 !.rpc[r] = "done",
                 !.file = Absent,
                 !.resp[r] = "ok"]
    /\ UNCHANGED << inputVars, estVars, cli, libVars >>

\* POST /workflow/end-to-end/file up to `await file.read()`: as in
\* generate_from_file, temp/<filename> is opened with "wb" and the handler
\* yields
WorkflowFileOpen(r) ==
    /\ mode = "api" /\ api.endpoint = "workflow_file" /\ api.rpc[r] = "start"
    /\ api' = [api EXCEPT !.rpc[r] = "opened",
                          !.upload = Holding(0),
                          !.handle[r] = "open"]
    /\ UNCHANGED << inputVars, estVars, cli, libVars >>

\* the rest of the handler, which does not yield: write and close, read
\* the notes back, run end_to_end_workflow on them (`failed` is the step
\* of it that raises), and remove temp/<filename> in the finally clause.
\* end_to_end_workflow removes its notes file on its success path only
WorkflowFileRest(r) ==
    /\ mode = "api" /\ api.endpoint = "workflow_file" /\ api.rpc[r] = "opened"
    /\ \E failed \in {"none", "notes", "generate"} \cup Range(CliOrder) :
         LET written == IF api.handle[r] = "orphan" THEN api.upload ELSE Holding(r)
             found == written.exists
             generates == found /\ failed \notin {"notes", "generate"}
             removes == RemovesTemp(written)
         IN  api' = [api EXCEPT
                 !.rpc[r] = "done",
                 !.read[r] = {written},
                 !.generated[r] = generates,
                 !.resp[r] = IF found /\ failed = "none" THEN "ok" ELSE "500",
                 !.file = IF ~found \/ failed = "notes" THEN @
                          ELSE IF failed = "none" THEN Absent
                          ELSE Holding(written.content),
                 !.cfg = IF generates THEN Holding(written.content) ELSE @,
                 !.upload = IF removes THEN Absent ELSE written,
                 !.lost = [o \in Requests |->
                             @[o] \/ (removes /\ o \in OthersWriting(r))],
                 !.handle = IF removes
                            THEN [Unlinked(@, r) EXCEPT ![r] = "none"]
                            ELSE [@ EXCEPT ![r] = "none"]]
    /\ UNCHANGED << inputVars, estVars, cli, libVars >>

\* ---------------------------------------------------------- behaviours

\* ------------------------------------------------- AWSPriceCalculator

\* Money is counted in 1/10000 of a dollar: 0.0416 dollars are 416.

\* FALLBACK_PRICES
FALLBACK_PRICES ==
    [ec2 |-> [k \in {"t3.nano", "t3.micro", "t3.small", "t3.medium",
                     "t3.large", "t3.xlarge", "t3.2xlarge", "m5.large",
                     "m5.xlarge", "m5.2xlarge", "m5.4xlarge"} |->
                CASE k = "t3.nano" -> 52
                  [] k = "t3.micro" -> 104
                  [] k = "t3.small" -> 208
                  [] k = "t3.medium" -> 416
                  [] k = "t3.large" -> 832
                  [] k = "t3.xlarge" -> 1664
                  [] k = "t3.2xlarge" -> 3328
                  [] k = "m5.large" -> 960
                  [] k = "m5.xlarge" -> 1920
                  [] k = "m5.2xlarge" -> 3840
                  [] k = "m5.4xlarge" -> 7680],
     rds |-> [k \in {"db.t3.micro", "db.t3.small", "db.t3.medium",
                     "db.t3.large", "db.t3.xlarge", "db.t3.2xlarge",
                     "db.m5.large", "db.m5.xlarge", "db.m5.2xlarge",
                     "db.m5.4xlarge", "storage"} |->
                CASE k = "db.t3.micro" -> 170
                  [] k = "db.t3.small" -> 340
                  [] k = "db.t3.medium" -> 680
                  [] k = "db.t3.large" -> 1360
                  [] k = "db.t3.xlarge" -> 2720
                  [] k = "db.t3.2xlarge" -> 5440
                  [] k = "db.m5.large" -> 1550
                  [] k = "db.m5.xlarge" -> 3100
                  [] k = "db.m5.2xlarge" -> 6200
                  [] k = "db.m5.4xlarge" -> 12400
                  [] k = "storage" -> 1150],
     s3  |-> [k \in {"Standard", "Standard-IA", "Glacier"} |->
                CASE k = "Standard" -> 230
                  [] k = "Standard-IA" -> 125
                  [] k = "Glacier" -> 40]]

\* dict.get(key, default)
DictGet(d, key, default) == IF key \in DOMAIN d THEN d[key] ELSE default

\* One item of the PriceList of a get_products response: "usd" has an
\* OnDemand term with a USD pricePerUnit, "noterms" has no OnDemand terms,
\* "bad" makes the extraction raise (a string that is not JSON, a USD value
\* that is not a number).
PriceItems ==
    {[kind |-> "usd", USD |-> 416], [kind |-> "noterms", USD |-> 0],
     [kind |-> "bad", USD |-> 0]}

\* What pricing_client.get_products does: it raises, or it returns a
\* response with a PriceList
Responses ==
    {[raises |-> TRUE, PriceList |-> << >>]}
    \cup {[raises |-> FALSE, PriceList |-> l] : l \in SeqsUpTo(PriceItems, MaxPriceList)}

\* the response of a call that is not made
NoResponse == [raises |-> FALSE, PriceList |-> << >>]

\* None of _extract_price; a price p that was found is << p >>
None == << >>

\* _extract_price: the first USD price of the list; None when there is
\* none, and None when an item before it raises
RECURSIVE extract_price(_)
extract_price(price_list) ==
    IF price_list = << >> THEN None
    ELSE CASE Head(price_list).kind = "bad" -> None
           [] Head(price_list).kind = "noterms" -> extract_price(Tail(price_list))
           [] Head(price_list).kind = "usd" -> << Head(price_list).USD >>

get_ec2_price_table_only(instance_type, response) ==
    DictGet(FALLBACK_PRICES.ec2, instance_type, 500)

\* _get_ec2_price
get_ec2_price(instance_type, response) ==
    IF response.raises
    THEN DictGet(FALLBACK_PRICES.ec2, instance_type, 500)
    ELSE LET p == extract_price(response.PriceList)
         IN  IF p # None THEN p[1]
             ELSE DictGet(FALLBACK_PRICES.ec2, instance_type, 500)

\* _get_rds_price: the storage price is answered without the API
get_rds_price(instance_type, response) ==
    IF instance_type = "storage"
    THEN DictGet(FALLBACK_PRICES.rds, "storage", 1150)
    ELSE IF response.raises
    THEN DictGet(FALLBACK_PRICES.rds, instance_type, 1000)
    ELSE LET p == extract_price(response.PriceList)
         IN  IF p # None THEN p[1]
             ELSE DictGet(FALLBACK_PRICES.rds, instance_type, 1000)

\* _get_s3_price
get_s3_price(storage_class, response) ==
    IF response.raises
    THEN DictGet(FALLBACK_PRICES.s3, storage_class, 230)
    ELSE LET p == extract_price(response.PriceList)
         IN  IF p # None THEN p[1]
             ELSE DictGet(FALLBACK_PRICES.s3, storage_class, 230)

\* the keys a price is asked for: one of the table, one that the table
\* does not hold and, for RDS, the storage key
PriceKeys ==
    [ec2 |-> {"t3.medium", "unknown.instance"},
     rds |-> {"db.t3.micro", "db.unknown", "storage"},
     s3  |-> {"Standard-IA", "Unknown"}]

PriceNew(pcv, service, key) ==
    [pc |-> pcv, service |-> service, key |-> key,
     response |-> NoResponse, called |-> FALSE, result |-> 0]

\* the price lookup of a service
GetServicePrice(service, key, response) ==
    CASE service = "ec2" -> get_ec2_price(key, response)
      [] service = "rds" -> get_rds_price(key, response)
      [] service = "s3" -> get_s3_price(key, response)

\* TRUE when the lookup calls pricing_client.get_products
CallsApi(service, key) == ~(service = "rds" /\ key = "storage")

\* One call of _get_ec2_price, _get_rds_price or _get_s3_price
GetPrice ==
    /\ mode = "get_price"
    /\ price.pc = "call"
    /\ \E response \in IF CallsApi(price.service, price.key)
                       THEN Responses ELSE {NoResponse} :
          price' = [price EXCEPT
                      !.pc = "returned",
                      !.response = response,
                      !.called = CallsApi(price.service, price.key),
                      !.result = GetServicePrice(price.service, price.key, response)]
    /\ UNCHANGED << inputVars, estVars, cli, api, notPrice >>

\* ---- calculate_resource_cost and calculate_total_cost

\* ResourceConfig: specs holds the keys the YAML or the request gave
CalcConfigs ==
    {[service |-> "ec2", specs |-> [instance_type |-> t],
      quantity |-> q, usage_hours |-> 730] :
        t \in PriceKeys.ec2, q \in {-1, 2}}
    \cup {[service |-> "rds",
           specs |-> [instance_type |-> "db.t3.micro", engine |-> "mysql",
                      storage_gb |-> g],
           quantity |-> 1, usage_hours |-> 730] : g \in {-5, 100}}
    \cup {[service |-> "rds",
           specs |-> [instance_type |-> "db.t3.micro", engine |-> "mysql"],
           quantity |-> 1, usage_hours |-> 730]}
    \cup {[service |-> "s3",
           specs |-> [storage_class |-> "Standard-IA", storage_gb |-> g],
           quantity |-> 1, usage_hours |-> 730] : g \in {-5, 100}}
    \cup {[service |-> "s3", specs |-> [storage_gb |-> 100],
           quantity |-> 1, usage_hours |-> 730]}
    \cup {[service |-> sv, specs |-> << >>, quantity |-> 1, usage_hours |-> 730] :
            sv \in {"sqs", "cloudwatch", "waf", "lambda", "dynamodb"}}

\* PricingResult (details left out) or the exception raised
PricingResult(resource_type, unit_price, quantity, usage_hours, monthly_cost) ==
    [raises |-> FALSE, resource_type |-> resource_type,
     unit_price |-> unit_price, quantity |-> quantity,
     usage_hours |-> usage_hours, monthly_cost |-> monthly_cost]

ValueError(message) == [raises |-> TRUE, error |-> << "ValueError", message >>]

\* calculate_resource_cost
calculate_resource_cost(resource, response) ==
    CASE resource.service = "ec2" ->
           LET unit_price == get_ec2_price(resource.specs["instance_type"], response)
           IN  PricingResult(<< "EC2", resource.specs["instance_type"] >>,
                             unit_price, resource.quantity, resource.usage_hours,
                             unit_price * resource.quantity * resource.usage_hours)
      [] resource.service = "rds" ->
           LET unit_price == get_rds_price(resource.specs["instance_type"], response)
               monthly_cost == unit_price * resource.quantity * resource.usage_hours
               storage_gb == DictGet(resource.specs, "storage_gb", 0)
               storage_price == get_rds_price("storage", NoResponse)
           IN  PricingResult(<< "RDS", resource.specs["instance_type"] >>,
                             unit_price, resource.quantity, resource.usage_hours,
                             monthly_cost + storage_price * storage_gb)
      [] resource.service = "s3" ->
           LET storage_class == DictGet(resource.specs, "storage_class", "Standard")
               unit_price == get_s3_price(storage_class, response)
               storage_gb == DictGet(resource.specs, "storage_gb", 0)
           IN  PricingResult(<< "S3", storage_class >>, unit_price, 1, 730,
                             unit_price * storage_gb)
      [] resource.service = "sqs" ->
           PricingResult(<< "SQS Standard Queue" >>, 4000, 1, 730, 4000)
      [] resource.service = "cloudwatch" ->
           PricingResult(<< "CloudWatch Monitoring" >>, 3000, 1, 730, 3000)
      [] resource.service = "waf" ->
           PricingResult(<< "WAF" >>, 50000, 1, 730, 50000)
      [] OTHER ->
           ValueError(<< "Unsupported service: ", resource.service >>)

CalcNew(pcv, input) ==
    [pc |-> pcv, input |-> input, results |-> << >>, total_cost |-> 0,
     error |-> << >>, returned |-> << >>]

CalcAfterNoSum(c, result) ==
    IF result.raises
    THEN [c EXCEPT !.pc = "raised", !.error = result.error]
    ELSE [c EXCEPT !.results = Append(@, result)]

CalcAfterPartial(c, result) ==
    IF result.raises
    THEN [c EXCEPT !.pc = "returned",
                   !.returned = << [total_monthly_cost |-> c.total_cost,
                                    resources |-> << >>] >>]
    ELSE [c EXCEPT
            !.results = Append(@, result),
            !.total_cost = @ + result.monthly_cost]

\* calculate_total_cost after calculate_resource_cost: the exception
\* leaves the method, a result is appended and its cost added
CalcAfter(c, result) ==
    IF result.raises
    THEN [c EXCEPT !.pc = "raised", !.error = result.error]
    ELSE [c EXCEPT
            !.results = Append(@, result),
            !.total_cost = @ + result.monthly_cost]

\* calculate_total_cost, one turn of its loop: the cost of the next
\* resource is calculated and added, or its exception leaves the method
CalcResource ==
    /\ mode = "total_cost"
    /\ calc.pc = "loop"
    /\ Len(calc.results) < Len(calc.input)
    /\ LET resource == calc.input[Len(calc.results) + 1]
       IN  \E response \in IF resource.service \in {"ec2", "rds", "s3"}
                           THEN Responses ELSE {NoResponse} :
              LET result == calculate_resource_cost(resource, response)
              IN  calc' = CalcAfter(calc, result)
    /\ UNCHANGED << inputVars, estVars, cli, api, notCalc >>

\* calculate_total_cost, after its loop: the dictionary it returns
CalcReturn ==
    /\ mode = "total_cost"
    /\ calc.pc = "loop"
    /\ Len(calc.results) = Len(calc.input)
    /\ calc' = [calc EXCEPT
                  !.pc = "returned",
                  !.returned = << [total_monthly_cost |-> calc.total_cost,
                                   resources |->
                                     [i \in 1..Len(calc.results) |->
                                        [type |-> calc.results[i].resource_type,
                                         monthly_cost |-> calc.results[i].monthly_cost]]] >>]
    /\ UNCHANGED << inputVars, estVars, cli, api, notCalc >>

\* ------------------------------------------------------ AWSWebCalculator

\* Text is a sequence of characters (strings of length 1).  The printable
\* ASCII characters, in code order from 32 (str.encode and bytes.decode of
\* ASCII text)
Ascii ==
    << " ", "!", "\"", "#", "$", "%", "&", "'", "(", ")", "*", "+",
       ",", "-", ".", "/", "0", "1", "2", "3", "4", "5", "6", "7",
       "8", "9", ":", ";", "<", "=", ">", "?", "@", "A", "B", "C",
       "D", "E", "F", "G", "H", "I", "J", "K", "L", "M", "N", "O",
       "P", "Q", "R", "S", "T", "U", "V", "W", "X", "Y", "Z", "[",
       "\\", "]", "^", "_", "(backtick)", "a", "b", "c", "d", "e", "f", "g",
       "h", "i", "j", "k", "l", "m", "n", "o", "p", "q", "r", "s",
       "t", "u", "v", "w", "x", "y", "z", "{", "|", "}", "~" >>

\* a function on 1..n as a sequence
AsSeq(f) == << >> \o f

Ord == [c \in Range(Ascii) |-> 31 + (CHOOSE i \in 1..Len(Ascii) : Ascii[i] = c)]

Chr(code) == Ascii[code - 31]

\* str.encode(): the bytes of a text
StrEncode(text) == AsSeq([i \in 1..Len(text) |-> Ord[text[i]]])

\* bytes.decode(): the text of bytes
BytesDecode(bytes) == AsSeq([i \in 1..Len(bytes) |-> Chr(bytes[i])])

\* the alphabet of base64.b64encode
Base64Alphabet ==
    << "A", "B", "C", "D", "E", "F", "G", "H", "I", "J", "K", "L", "M",
       "N", "O", "P", "Q", "R", "S", "T", "U", "V", "W", "X", "Y", "Z",
       "a", "b", "c", "d", "e", "f", "g", "h", "i", "j", "k", "l", "m",
       "n", "o", "p", "q", "r", "s", "t", "u", "v", "w", "x", "y", "z",
       "0", "1", "2", "3", "4", "5", "6", "7", "8", "9", "+", "/" >>

\* base64.b64encode: every 3 bytes become 4 characters of 6 bits each, a
\* last group of 1 or 2 bytes is padded with "="; the characters are
\* returned as bytes
b64encode(bytes) ==
    LET n == Len(bytes)
        ByteAt(i) == IF i <= n THEN bytes[i] ELSE 0
        Group(g) == ByteAt(3 * g + 1) * 65536 + ByteAt(3 * g + 2) * 256 + ByteAt(3 * g + 3)
    IN  StrEncode(AsSeq(
          [j \in 1..(4 * ((n + 2) \div 3)) |->
             LET g == (j - 1) \div 4
                 k == (j - 1) % 4
             IN  IF k >= 2 /\ 3 * g + k > n THEN "="
                 ELSE Base64Alphabet[((Group(g) \div << 262144, 4096, 64, 1 >>[k + 1]) % 64) + 1]]))

HexDigits == << "0", "1", "2", "3", "4", "5", "6", "7", "8", "9",
                "A", "B", "C", "D", "E", "F" >>

\* urllib.parse.quote of one character: letters, digits, "_.-~" and the
\* default safe "/" stay as they are
QuoteChar(c) ==
    IF \/ Ord[c] \in (48..57) \cup (65..90) \cup (97..122)
       \/ c \in {"_", ".", "-", "~", "/"}
    THEN << c >>
    ELSE << "%", HexDigits[(Ord[c] \div 16) + 1], HexDigits[(Ord[c] % 16) + 1] >>

\* urllib.parse.quote of the characters lo..hi of a text
RECURSIVE QuoteRange(_, _, _)
QuoteRange(text, lo, hi) ==
    IF lo > hi THEN << >>
    ELSE IF lo = hi THEN QuoteChar(text[lo])
    ELSE LET mid == (lo + hi) \div 2
         IN  QuoteRange(text, lo, mid) \o QuoteRange(text, mid + 1, hi)

quote(text) == QuoteRange(text, 1, Len(text))

\* the characters of the strings that the model uses
Text ==
    " " :> << " " >> @@
    " (" :> << " ", "(" >> @@
    " - " :> << " ", "-", " " >> @@
    " DB with " :> << " ", "D", "B", " ", "w", "i", "t", "h", " " >> @@
    " storage" :> << " ", "s", "t", "o", "r", "a", "g", "e" >> @@
    " x " :> << " ", "x", " " >> @@
    ")" :> << ")" >> @@
    ">>?" :> << ">", ">", "?" >> @@
    "?data=" :> << "?", "d", "a", "t", "a", "=" >> @@
    "AmazonEC2" :> << "A", "m", "a", "z", "o", "n", "E", "C", "2" >> @@
    "AmazonRDS" :> << "A", "m", "a", "z", "o", "n", "R", "D", "S" >> @@
    "AmazonS3" :> << "A", "m", "a", "z", "o", "n", "S", "3" >> @@
    "Database Instance" :> << "D", "a", "t", "a", "b", "a", "s", "e", " ", "I", "n", "s", "t", "a", "n", "c", "e" >> @@
    "Deep" :> << "D", "e", "e", "p" >> @@
    "DeepArchive" :> << "D", "e", "e", "p", "A", "r", "c", "h", "i", "v", "e" >> @@
    "EC2" :> << "E", "C", "2" >> @@
    "EC2 Instance" :> << "E", "C", "2", " ", "I", "n", "s", "t", "a", "n", "c", "e" >> @@
    "GB" :> << "G", "B" >> @@
    "GB " :> << "G", "B", " " >> @@
    "GB storage" :> << "G", "B", " ", "s", "t", "o", "r", "a", "g", "e" >> @@
    "General Purpose" :> << "G", "e", "n", "e", "r", "a", "l", " ", "P", "u", "r", "p", "o", "s", "e" >> @@
    "Glacier" :> << "G", "l", "a", "c", "i", "e", "r" >> @@
    "Glacier Deep Archive" :> << "G", "l", "a", "c", "i", "e", "r", " ", "D", "e", "e", "p", " ", "A", "r", "c", "h", "i", "v", "e" >> @@
    "Glacier Flexible Retrieval" :> << "G", "l", "a", "c", "i", "e", "r", " ", "F", "l", "e", "x", "i", "b", "l", "e", " ", "R", "e", "t", "r", "i", "e", "v", "a", "l" >> @@
    "Infrequent Access" :> << "I", "n", "f", "r", "e", "q", "u", "e", "n", "t", " ", "A", "c", "c", "e", "s", "s" >> @@
    "Intelligent-Tiering" :> << "I", "n", "t", "e", "l", "l", "i", "g", "e", "n", "t", "-", "T", "i", "e", "r", "i", "n", "g" >> @@
    "Linux" :> << "L", "i", "n", "u", "x" >> @@
    "MariaDB" :> << "M", "a", "r", "i", "a", "D", "B" >> @@
    "MySQL" :> << "M", "y", "S", "Q", "L" >> @@
    "One Zone-IA" :> << "O", "n", "e", " ", "Z", "o", "n", "e", "-", "I", "A" >> @@
    "OneZoneIA" :> << "O", "n", "e", "Z", "o", "n", "e", "I", "A" >> @@
    "Oracle" :> << "O", "r", "a", "c", "l", "e" >> @@
    "PostgreSQL" :> << "P", "o", "s", "t", "g", "r", "e", "S", "Q", "L" >> @@
    "PostgreSQL-x" :> << "P", "o", "s", "t", "g", "r", "e", "S", "Q", "L", "-", "x" >> @@
    "RDS" :> << "R", "D", "S" >> @@
    "RDS-Storage" :> << "R", "D", "S", "-", "S", "t", "o", "r", "a", "g", "e" >> @@
    "S3-Storage" :> << "S", "3", "-", "S", "t", "o", "r", "a", "g", "e" >> @@
    "SQL Server" :> << "S", "Q", "L", " ", "S", "e", "r", "v", "e", "r" >> @@
    "Single-AZ" :> << "S", "i", "n", "g", "l", "e", "-", "A", "Z" >> @@
    "Standard" :> << "S", "t", "a", "n", "d", "a", "r", "d" >> @@
    "StandardIA" :> << "S", "t", "a", "n", "d", "a", "r", "d", "I", "A" >> @@
    "Storage" :> << "S", "t", "o", "r", "a", "g", "e" >> @@
    "USD" :> << "U", "S", "D" >> @@
    "c5" :> << "c", "5" >> @@
    "c5.2xlarge" :> << "c", "5", ".", "2", "x", "l", "a", "r", "g", "e" >> @@
    "c5.large" :> << "c", "5", ".", "l", "a", "r", "g", "e" >> @@
    "c5.xlarge" :> << "c", "5", ".", "x", "l", "a", "r", "g", "e" >> @@
    "costComponents" :> << "c", "o", "s", "t", "C", "o", "m", "p", "o", "n", "e", "n", "t", "s" >> @@
    "currency" :> << "c", "u", "r", "r", "e", "n", "c", "y" >> @@
    "data_storage" :> << "d", "a", "t", "a", "_", "s", "t", "o", "r", "a", "g", "e" >> @@
    "database" :> << "d", "a", "t", "a", "b", "a", "s", "e" >> @@
    "databaseEngine" :> << "d", "a", "t", "a", "b", "a", "s", "e", "E", "n", "g", "i", "n", "e" >> @@
    "db.m5" :> << "d", "b", ".", "m", "5" >> @@
    "db.m5.2xlarge" :> << "d", "b", ".", "m", "5", ".", "2", "x", "l", "a", "r", "g", "e" >> @@
    "db.m5.large" :> << "d", "b", ".", "m", "5", ".", "l", "a", "r", "g", "e" >> @@
    "db.m5.xlarge" :> << "d", "b", ".", "m", "5", ".", "x", "l", "a", "r", "g", "e" >> @@
    "db.t3" :> << "d", "b", ".", "t", "3" >> @@
    "db.t3.2xlarge" :> << "d", "b", ".", "t", "3", ".", "2", "x", "l", "a", "r", "g", "e" >> @@
    "db.t3.large" :> << "d", "b", ".", "t", "3", ".", "l", "a", "r", "g", "e" >> @@
    "db.t3.medium" :> << "d", "b", ".", "t", "3", ".", "m", "e", "d", "i", "u", "m" >> @@
    "db.t3.micro" :> << "d", "b", ".", "t", "3", ".", "m", "i", "c", "r", "o" >> @@
    "db.t3.small" :> << "d", "b", ".", "t", "3", ".", "s", "m", "a", "l", "l" >> @@
    "db.t3.xlarge" :> << "d", "b", ".", "t", "3", ".", "x", "l", "a", "r", "g", "e" >> @@
    "deep-archive" :> << "d", "e", "e", "p", "-", "a", "r", "c", "h", "i", "v", "e" >> @@
    "deploymentOption" :> << "d", "e", "p", "l", "o", "y", "m", "e", "n", "t", "O", "p", "t", "i", "o", "n" >> @@
    "description" :> << "d", "e", "s", "c", "r", "i", "p", "t", "i", "o", "n" >> @@
    "ec2" :> << "e", "c", "2" >> @@
    "engine" :> << "e", "n", "g", "i", "n", "e" >> @@
    "estimate" :> << "e", "s", "t", "i", "m", "a", "t", "e" >> @@
    "family" :> << "f", "a", "m", "i", "l", "y" >> @@
    "glacier" :> << "g", "l", "a", "c", "i", "e", "r" >> @@
    "hourlyQuantity" :> << "h", "o", "u", "r", "l", "y", "Q", "u", "a", "n", "t", "i", "t", "y" >> @@
    "hours" :> << "h", "o", "u", "r", "s" >> @@
    "https://calculator.aws/#/estimate" :> << "h", "t", "t", "p", "s", ":", "/", "/", "c", "a", "l", "c", "u", "l", "a", "t", "o", "r", ".", "a", "w", "s", "/", "#", "/", "e", "s", "t", "i", "m", "a", "t", "e" >> @@
    "instanceType" :> << "i", "n", "s", "t", "a", "n", "c", "e", "T", "y", "p", "e" >> @@
    "instance_type" :> << "i", "n", "s", "t", "a", "n", "c", "e", "_", "t", "y", "p", "e" >> @@
    "intelligent-tiering" :> << "i", "n", "t", "e", "l", "l", "i", "g", "e", "n", "t", "-", "t", "i", "e", "r", "i", "n", "g" >> @@
    "k" :> << "k" >> @@
    "m5" :> << "m", "5" >> @@
    "m5.2xlarge" :> << "m", "5", ".", "2", "x", "l", "a", "r", "g", "e" >> @@
    "m5.4xlarge" :> << "m", "5", ".", "4", "x", "l", "a", "r", "g", "e" >> @@
    "m5.large" :> << "m", "5", ".", "l", "a", "r", "g", "e" >> @@
    "m5.xlarge" :> << "m", "5", ".", "x", "l", "a", "r", "g", "e" >> @@
    "mariadb" :> << "m", "a", "r", "i", "a", "d", "b" >> @@
    "monthly" :> << "m", "o", "n", "t", "h", "l", "y" >> @@
    "monthlyQuantity" :> << "m", "o", "n", "t", "h", "l", "y", "Q", "u", "a", "n", "t", "i", "t", "y" >> @@
    "mysql" :> << "m", "y", "s", "q", "l" >> @@
    "name" :> << "n", "a", "m", "e" >> @@
    "onezone-ia" :> << "o", "n", "e", "z", "o", "n", "e", "-", "i", "a" >> @@
    "operatingSystem" :> << "o", "p", "e", "r", "a", "t", "i", "n", "g", "S", "y", "s", "t", "e", "m" >> @@
    "oracle" :> << "o", "r", "a", "c", "l", "e" >> @@
    "postgres" :> << "p", "o", "s", "t", "g", "r", "e", "s" >> @@
    "postgresql" :> << "p", "o", "s", "t", "g", "r", "e", "s", "q", "l" >> @@
    "price" :> << "p", "r", "i", "c", "e" >> @@
    "quantity" :> << "q", "u", "a", "n", "t", "i", "t", "y" >> @@
    "queue" :> << "q", "u", "e", "u", "e" >> @@
    "r5" :> << "r", "5" >> @@
    "r5.2xlarge" :> << "r", "5", ".", "2", "x", "l", "a", "r", "g", "e" >> @@
    "r5.large" :> << "r", "5", ".", "l", "a", "r", "g", "e" >> @@
    "r5.xlarge" :> << "r", "5", ".", "x", "l", "a", "r", "g", "e" >> @@
    "rds" :> << "r", "d", "s" >> @@
    "region" :> << "r", "e", "g", "i", "o", "n" >> @@
    "resources" :> << "r", "e", "s", "o", "u", "r", "c", "e", "s" >> @@
    "s3" :> << "s", "3" >> @@
    "service" :> << "s", "e", "r", "v", "i", "c", "e" >> @@
    "sqlserver" :> << "s", "q", "l", "s", "e", "r", "v", "e", "r" >> @@
    "standard" :> << "s", "t", "a", "n", "d", "a", "r", "d" >> @@
    "standard-ia" :> << "s", "t", "a", "n", "d", "a", "r", "d", "-", "i", "a" >> @@
    "storageClass" :> << "s", "t", "o", "r", "a", "g", "e", "C", "l", "a", "s", "s" >> @@
    "storageType" :> << "s", "t", "o", "r", "a", "g", "e", "T", "y", "p", "e" >> @@
    "storage_class" :> << "s", "t", "o", "r", "a", "g", "e", "_", "c", "l", "a", "s", "s" >> @@
    "storage_gb" :> << "s", "t", "o", "r", "a", "g", "e", "_", "g", "b" >> @@
    "t3" :> << "t", "3" >> @@
    "t3.2xlarge" :> << "t", "3", ".", "2", "x", "l", "a", "r", "g", "e" >> @@
    "t3.large" :> << "t", "3", ".", "l", "a", "r", "g", "e" >> @@
    "t3.medium" :> << "t", "3", ".", "m", "e", "d", "i", "u", "m" >> @@
    "t3.micro" :> << "t", "3", ".", "m", "i", "c", "r", "o" >> @@
    "t3.nano" :> << "t", "3", ".", "n", "a", "n", "o" >> @@
    "t3.small" :> << "t", "3", ".", "s", "m", "a", "l", "l" >> @@
    "t3.xlarge" :> << "t", "3", ".", "x", "l", "a", "r", "g", "e" >> @@
    "tags" :> << "t", "a", "g", "s" >> @@
    "test" :> << "t", "e", "s", "t" >> @@
    "timeframe" :> << "t", "i", "m", "e", "f", "r", "a", "m", "e" >> @@
    "totalCost" :> << "t", "o", "t", "a", "l", "C", "o", "s", "t" >> @@
    "type" :> << "t", "y", "p", "e" >> @@
    "unit" :> << "u", "n", "i", "t" >> @@
    "us-east-1" :> << "u", "s", "-", "e", "a", "s", "t", "-", "1" >> @@
    "value" :> << "v", "a", "l", "u", "e" >> @@
    "web_server" :> << "w", "e", "b", "_", "s", "e", "r", "v", "e", "r" >> @@
    "x9.huge" :> << "x", "9", ".", "h", "u", "g", "e" >>

\* Python values: None, int, float (integer part and decimal digits), str
\* (its characters), list, tuple and dict (its items in insertion order,
\* each << key, value >>)
Py(t, v) == [t |-> t, v |-> v]

\* None
PyNone == Py("none", << >>)

\* str(n) of a natural number
RECURSIVE NatText(_)
NatText(n) ==
    IF n < 10 THEN << Chr(48 + n) >> ELSE NatText(n \div 10) \o << Chr(48 + (n % 10)) >>

IntText(n) == IF n < 0 THEN << "-" >> \o NatText(0 - n) ELSE NatText(n)

\* json.dumps (default separators ", " and ": "; the strings of the model
\* need no escape).  A tuple is written as an array and a key that is an
\* int as the string of its digits.
RECURSIVE json_dumps(_), DumpItems(_, _), DumpPairs(_, _)
json_dumps(value) ==
    CASE value.t = "none" -> << "n", "u", "l", "l" >>
      [] value.t = "int" -> IntText(value.v)
      [] value.t = "float" ->
           IntText(value.v[1]) \o << "." >>
           \o [i \in 1..Len(value.v[2]) |-> Chr(48 + value.v[2][i])]
      [] value.t = "str" -> << "\"" >> \o value.v \o << "\"" >>
      [] value.t \in {"list", "tuple"} ->
           << "[" >> \o DumpItems(value.v, 1) \o << "]" >>
      [] value.t = "dict" ->
           << "{" >> \o DumpPairs(value.v, 1) \o << "}" >>

DumpItems(items, i) ==
    IF i > Len(items) THEN << >>
    ELSE (IF i > 1 THEN << ",", " " >> ELSE << >>)
         \o json_dumps(items[i]) \o DumpItems(items, i + 1)

DumpPairs(items, i) ==
    IF i > Len(items) THEN << >>
    ELSE (IF i > 1 THEN << ",", " " >> ELSE << >>)
         \o (IF items[i][1].t = "int"
             THEN << "\"" >> \o IntText(items[i][1].v) \o << "\"" >>
             ELSE json_dumps(items[i][1]))
         \o << ":", " " >> \o json_dumps(items[i][2])
         \o DumpPairs(items, i + 1)

Str(s) == Py("str", Text[s])

\* CALCULATOR_BASE_URL
CALCULATOR_BASE_URL == "https://calculator.aws/#/estimate"

\* EC2_TYPE_MAP
EC2_TYPE_MAP ==
    [k \in {"t3.nano", "t3.micro", "t3.small", "t3.medium", "t3.large",
            "t3.xlarge", "t3.2xlarge", "m5.large", "m5.xlarge", "m5.2xlarge",
            "m5.4xlarge", "c5.large", "c5.xlarge", "c5.2xlarge", "r5.large",
            "r5.xlarge", "r5.2xlarge"} |->
        [family |-> CASE k \in {"t3.nano", "t3.micro", "t3.small", "t3.medium",
                                "t3.large", "t3.xlarge", "t3.2xlarge"} -> "t3"
                      [] k \in {"m5.large", "m5.xlarge", "m5.2xlarge", "m5.4xlarge"} -> "m5"
                      [] k \in {"c5.large", "c5.xlarge", "c5.2xlarge"} -> "c5"
                      [] k \in {"r5.large", "r5.xlarge", "r5.2xlarge"} -> "r5",
         type |-> k]]

\* RDS_TYPE_MAP
RDS_TYPE_MAP ==
    [k \in {"db.t3.micro", "db.t3.small", "db.t3.medium", "db.t3.large",
            "db.t3.xlarge", "db.t3.2xlarge", "db.m5.large", "db.m5.xlarge",
            "db.m5.2xlarge"} |->
        [family |-> IF k \in {"db.m5.large", "db.m5.xlarge", "db.m5.2xlarge"}
                    THEN "db.m5" ELSE "db.t3",
         type |-> k]]

\* RDS_ENGINE_MAP
RDS_ENGINE_MAP ==
    [k \in {"mysql", "postgres", "postgresql", "mariadb", "oracle", "sqlserver"} |->
        CASE k = "mysql" -> "MySQL"
          [] k \in {"postgres", "postgresql"} -> "PostgreSQL"
          [] k = "mariadb" -> "MariaDB"
          [] k = "oracle" -> "Oracle"
          [] k = "sqlserver" -> "SQL Server"]

\* S3_STORAGE_CLASS_MAP
S3_STORAGE_CLASS_MAP ==
    [k \in {"Standard", "standard", "StandardIA", "standard-ia", "OneZoneIA",
            "onezone-ia", "Glacier", "glacier", "DeepArchive", "deep-archive",
            "Intelligent-Tiering", "intelligent-tiering"} |->
        CASE k \in {"Standard", "standard"} -> "General Purpose"
          [] k \in {"StandardIA", "standard-ia"} -> "Infrequent Access"
          [] k \in {"OneZoneIA", "onezone-ia"} -> "One Zone-IA"
          [] k \in {"Glacier", "glacier"} -> "Glacier Flexible Retrieval"
          [] k \in {"DeepArchive", "deep-archive"} -> "Glacier Deep Archive"
          [] k \in {"Intelligent-Tiering", "intelligent-tiering"} -> "Intelligent-Tiering"]

\* str.lower() of a text
StrLower(text) ==
    AsSeq([i \in 1..Len(text) |->
             IF Ord[text[i]] \in 65..90 THEN Chr(Ord[text[i]] + 32) ELSE text[i]])

\* _convert_ec2_to_calculator_format
convert_ec2_to_calculator_format(resource) ==
    LET instance_type == DictGet(resource.specs, "instance_type", "t3.medium")
        instance_info == DictGet(EC2_TYPE_MAP, instance_type,
                                 [family |-> "t3", type |-> "t3.medium"])
    IN  Py("dict", <<
          << Str("service"), Str("AmazonEC2") >>,
          << Str("name"), Py("str", Text[resource.resource_type] \o Text[" ("]
                              \o Text[instance_type] \o Text[")"]) >>,
          << Str("description"),
             Py("str", Text[resource.resource_type] \o Text[" - "]
                   \o IntText(resource.quantity) \o Text[" x "]
                   \o Text[instance_type]) >>,
          << Str("tags"), Str(resource.resource_type) >>,
          << Str("quantity"), Py("int", resource.quantity) >>,
          << Str("costComponents"),
             Py("list", << Py("dict", <<
               << Str("name"), Str("EC2 Instance") >>,
               << Str("unit"), Str("hours") >>,
               << Str("hourlyQuantity"), Py("int", 1) >>,
               << Str("monthlyQuantity"), resource.usage_hours >>,
               << Str("price"), Py("int", 0) >>,
               << Str("service"), Str("AmazonEC2") >>,
               << Str("family"), Str(instance_info.family) >>,
               << Str("instanceType"), Str(instance_info.type) >>,
               << Str("region"), Str(resource.region) >>,
               << Str("operatingSystem"), Str("Linux") >>,
               << Str("type"), Str("EC2") >> >>) >>) >> >>)

\* _convert_rds_to_calculator_format
convert_rds_to_calculator_format(resource) ==
    LET instance_type == DictGet(resource.specs, "instance_type", "db.t3.medium")
        instance_info == DictGet(RDS_TYPE_MAP, instance_type,
                                 [family |-> "db.t3", type |-> "db.t3.medium"])
        engine == DictGet(resource.specs, "engine", "mysql")
        lowered == {k \in DOMAIN RDS_ENGINE_MAP : Text[k] = StrLower(Text[engine])}
        engine_name == IF lowered = {} THEN "MySQL"
                       ELSE RDS_ENGINE_MAP[CHOOSE k \in lowered : TRUE]
        storage_gb == DictGet(resource.specs, "storage_gb", 100)
    IN  Py("dict", <<
          << Str("service"), Str("AmazonRDS") >>,
          << Str("name"), Py("str", Text[resource.resource_type] \o Text[" ("]
                              \o Text[instance_type] \o Text[" - "]
                              \o Text[engine_name] \o Text[")"]) >>,
          << Str("description"),
             Py("str", Text[resource.resource_type] \o Text[" - "]
                   \o IntText(resource.quantity) \o Text[" x "]
                   \o Text[instance_type] \o Text[" "] \o Text[engine_name]
                   \o Text[" DB with "] \o IntText(storage_gb)
                   \o Text["GB storage"]) >>,
          << Str("tags"), Str(resource.resource_type) >>,
          << Str("quantity"), Py("int", resource.quantity) >>,
          << Str("costComponents"),
             Py("list", <<
               Py("dict", <<
                 << Str("name"), Str("Database Instance") >>,
                 << Str("unit"), Str("hours") >>,
                 << Str("hourlyQuantity"), Py("int", 1) >>,
                 << Str("monthlyQuantity"), resource.usage_hours >>,
                 << Str("price"), Py("int", 0) >>,
                 << Str("service"), Str("AmazonRDS") >>,
                 << Str("family"), Str(instance_info.family) >>,
                 << Str("instanceType"), Str(instance_info.type) >>,
                 << Str("databaseEngine"), Str(engine_name) >>,
                 << Str("deploymentOption"), Str("Single-AZ") >>,
                 << Str("region"), Str(resource.region) >>,
                 << Str("type"), Str("RDS") >> >>),
               Py("dict", <<
                 << Str("name"), Str("Storage") >>,
                 << Str("unit"), Str("GB") >>,
                 << Str("hourlyQuantity"), PyNone >>,
                 << Str("monthlyQuantity"), Py("int", storage_gb) >>,
                 << Str("price"), Py("int", 0) >>,
                 << Str("service"), Str("AmazonRDS") >>,
                 << Str("storageType"), Str("General Purpose") >>,
                 << Str("region"), Str(resource.region) >>,
                 << Str("type"), Str("RDS-Storage") >> >>) >>) >> >>)

\* _convert_s3_to_calculator_format
convert_s3_to_calculator_format(resource) ==
    LET storage_class == DictGet(resource.specs, "storage_class", "Standard")
        aws_storage_class == DictGet(S3_STORAGE_CLASS_MAP, storage_class, "General Purpose")
        storage_gb == DictGet(resource.specs, "storage_gb", 100)
    IN  Py("dict", <<
          << Str("service"), Str("AmazonS3") >>,
          << Str("name"), Py("str", Text[resource.resource_type] \o Text[" ("]
                              \o Text[storage_class] \o Text[")"]) >>,
          << Str("description"),
             Py("str", Text[resource.resource_type] \o Text[" - "]
                   \o IntText(storage_gb) \o Text["GB "]
                   \o Text[storage_class] \o Text[" storage"]) >>,
          << Str("tags"), Str(resource.resource_type) >>,
          << Str("costComponents"),
             Py("list", << Py("dict", <<
               << Str("name"), Str("Storage") >>,
               << Str("unit"), Str("GB") >>,
               << Str("hourlyQuantity"), PyNone >>,
               << Str("monthlyQuantity"), Py("int", storage_gb) >>,
               << Str("price"), Py("int", 0) >>,
               << Str("service"), Str("AmazonS3") >>,
               << Str("storageClass"), Str(aws_storage_class) >>,
               << Str("region"), Str(resource.region) >>,
               << Str("type"), Str("S3-Storage") >> >>) >>) >> >>)

encode_calculator_data_empty(calculator_data) ==
    quote(BytesDecode(b64encode(StrEncode(json_dumps(Py("dict", << >>))))))

\* _encode_calculator_data
encode_calculator_data(calculator_data) ==
    LET json_data == json_dumps(calculator_data)
        base64_data == BytesDecode(b64encode(StrEncode(json_data)))
    IN  quote(base64_data)

convert_resource_to_calculator_format_no_s3(resource) ==
    CASE resource.service = "ec2" -> << convert_ec2_to_calculator_format(resource) >>
      [] resource.service = "rds" -> << convert_rds_to_calculator_format(resource) >>
      [] OTHER -> << >>

\* convert_resource_to_calculator_format: << >> is None, << d >> a dict d
convert_resource_to_calculator_format(resource) ==
    CASE resource.service = "ec2" -> << convert_ec2_to_calculator_format(resource) >>
      [] resource.service = "rds" -> << convert_rds_to_calculator_format(resource) >>
      [] resource.service = "s3" -> << convert_s3_to_calculator_format(resource) >>
      [] OTHER -> << >>

\* the loop of convert_resources_to_calculator_format: a conversion that is
\* not None and not an empty dict is appended
RECURSIVE ConvertFrom(_, _)
ConvertFrom(rs, i) ==
    IF i > Len(rs) THEN << >>
    ELSE LET calculator_resource == convert_resource_to_calculator_format(rs[i])
         IN  (IF calculator_resource # << >> /\ calculator_resource[1].v # << >>
              THEN calculator_resource ELSE << >>)
             \o ConvertFrom(rs, i + 1)

\* convert_resources_to_calculator_format
convert_resources_to_calculator_format(rs) ==
    Py("dict", <<
      << Str("estimate"),
         Py("dict", <<
           << Str("resources"), Py("list", ConvertFrom(rs, 1)) >>,
           << Str("totalCost"), Py("int", 0) >>,
           << Str("currency"), Str("USD") >>,
           << Str("timeframe"), Str("monthly") >> >>) >> >>)

\* ResourceConfig as the web calculator reads it; usage_hours is a float
\* unless the YAML gave a whole number
WebConfigs ==
    {[service |-> "ec2", resource_type |-> "web_server",
      specs |-> [instance_type |-> t], region |-> "us-east-1",
      quantity |-> 2, usage_hours |-> Py("float", << 730, << 0 >> >>)] :
        t \in {"t3.medium", "x9.huge"}}
    \cup {[service |-> "rds", resource_type |-> "database",
           specs |-> [instance_type |-> "db.t3.medium", engine |-> "mysql",
                      storage_gb |-> 100],
           region |-> "us-east-1", quantity |-> 1, usage_hours |-> Py("int", 100)],
          [service |-> "s3", resource_type |-> "data_storage",
           specs |-> [storage_class |-> "Standard", storage_gb |-> 500],
           region |-> "us-east-1", quantity |-> 1,
           usage_hours |-> Py("float", << 730, << 0 >> >>)],
          [service |-> "sqs", resource_type |-> "queue", specs |-> << >>,
           region |-> "us-east-1", quantity |-> 1,
           usage_hours |-> Py("float", << 730, << 0 >> >>)]}

\* calculator_data passed to _encode_calculator_data by other callers:
\* whatever json.dumps accepts
EncodeInputs ==
    {Py("dict", << >>),
     Py("dict", << << Str("test"), Str("value") >> >>),
     Py("dict", << << Str("k"), Str(">>?") >> >>),
     Py("dict", << << Str("k"), Py("list", << Py("int", -1), PyNone, Py("float", << 730, << 0 >> >>) >>) >> >>),
     Py("dict", << << Str("k"), Py("tuple", << Py("int", 1), Py("int", 2) >>) >> >>),
     Py("dict", << << Py("int", 1), Str("value") >> >>)}

WebNew(pcv, call, rs, data) ==
    [pc |-> pcv, call |-> call, resources |-> rs, data |-> data, url |-> << >>]

\* generate_calculator_url, its first statement
WebConvert ==
    /\ mode = "web"
    /\ web.pc = "start"
    /\ web' = [web EXCEPT
                 !.pc = "encode",
                 !.data = << convert_resources_to_calculator_format(web.resources) >>]
    /\ UNCHANGED << inputVars, estVars, cli, api, notWeb >>

\* _encode_calculator_data, and the rest of generate_calculator_url: the
\* value returned is the URL for generate_calculator_url, the encoded data
\* for a call of _encode_calculator_data
WebEncode ==
    /\ mode = "web"
    /\ web.pc = "encode"
    /\ web' = [web EXCEPT
                 !.pc = "returned",
                 !.url = LET encoded_data == encode_calculator_data(web.data[1])
                         IN  IF web.call = "generate_calculator_url"
                             THEN Text[CALCULATOR_BASE_URL] \o Text["?data="]
                                    \o encoded_data
                             ELSE encoded_data]
    /\ UNCHANGED << inputVars, estVars, cli, api, notWeb >>

\* ------------------------------------------------------- PricingService

\* resources passed to generate_cost_report
ReportConfigs == {r \in CalcConfigs : r.service \in {"ec2", "waf", "lambda"} /\ r.quantity > 0}

ReportNew(pcv, rs, include_url) ==
    [pc |-> pcv, resources |-> rs, include_url |-> include_url,
     result |-> {}, url_calls |-> << >>]

\* TRUE when calculate_costs raises: calculate_total_cost raises what
\* calculate_resource_cost raises for one of the resources
CostsRaise(rs) ==
    \E i \in 1..Len(rs) : calculate_resource_cost(rs[i], NoResponse).raises

ReportAfterCostsAlways(include_url) == "url"

\* generate_cost_report after the result dictionary is built
ReportAfterCosts(include_url) == IF include_url THEN "url" ELSE "return"

\* generate_cost_report: calculate_costs, format_cost_report and the
\* result dictionary
ReportCosts ==
    /\ mode = "report"
    /\ report.pc = "start"
    /\ report' = IF CostsRaise(report.resources)
                 THEN [report EXCEPT !.pc = "raised"]
                 ELSE [report EXCEPT
                         !.pc = ReportAfterCosts(report.include_url),
                         !.result = {"costs", "report"}]
    /\ UNCHANGED << inputVars, estVars, cli, api, notReport >>

\* generate_cost_report: the share URL
ReportUrl ==
    /\ mode = "report"
    /\ report.pc = "url"
    /\ report' = [report EXCEPT
                    !.pc = "return",
                    !.url_calls = Append(@, report.resources),
                    !.result = @ \cup {"calculator_url"}]
    /\ UNCHANGED << inputVars, estVars, cli, api, notReport >>

\* generate_cost_report: return result
ReportReturn ==
    /\ mode = "report"
    /\ report.pc = "return"
    /\ report' = [report EXCEPT !.pc = "returned"]
    /\ UNCHANGED << inputVars, estVars, cli, api, notReport >>

\* ----------------------------------------------------------- SOWService

\* template names: two that the template directory may hold, one that it
\* never holds
TemplateNames == {"standard", "custom", "nonexistent"}

SowNew(pcv, template_name, templates, j2_files, out_dir) ==
    [pc |-> pcv, template_name |-> template_name, templates |-> templates,
     j2_files |-> j2_files, out_dir_before |-> out_dir, out_dir |-> out_dir,
     out_file |-> FALSE, error |-> << >>]

validate_template_loaded(templates, j2_files, template_name) ==
    template_name \in templates

\* TemplateManager.validate_template
validate_template(templates, j2_files, template_name) ==
    IF template_name \notin templates THEN FALSE
    ELSE template_name \in j2_files

\* SOWService.create_template, called before create_sow: the template is
\* loaded from then on, without a .j2 file; a name that has a .yaml file
\* raises
SowCreateTemplate ==
    /\ mode = "sow"
    /\ sow.pc = "ready"
    /\ \E name \in TemplateNames \ {"nonexistent"} :
          /\ name \notin sow.templates
          /\ sow' = [sow EXCEPT !.templates = @ \cup {name}]
    /\ UNCHANGED << inputVars, estVars, cli, api, notSow >>

\* create_sow: the template is validated first
SowValidate ==
    /\ mode = "sow"
    /\ sow.pc = "ready"
    /\ sow' = IF ~validate_template(sow.templates, sow.j2_files, sow.template_name)
              THEN [sow EXCEPT
                      !.pc = "raised",
                      !.error = << "ValueError", "Template ", sow.template_name,
                                   " not found or invalid" >>]
              ELSE [sow EXCEPT !.pc = "mkdir"]
    /\ UNCHANGED << inputVars, estVars, cli, api, notSow >>

\* create_sow: output_path.parent.mkdir(parents=True, exist_ok=True)
SowMkdir ==
    /\ mode = "sow"
    /\ sow.pc = "mkdir"
    /\ sow' = [sow EXCEPT !.pc = "generate", !.out_dir = TRUE]
    /\ UNCHANGED << inputVars, estVars, cli, api, notSow >>

\* create_sow: generator.generate writes the document, or raises while
\* it renders the template
SowGenerate ==
    /\ mode = "sow"
    /\ sow.pc = "generate"
    /\ \E ok \in BOOLEAN :
          sow' = IF ok
                 THEN [sow EXCEPT !.pc = "returned", !.out_file = TRUE]
                 ELSE [sow EXCEPT !.pc = "raised", !.error = << "Exception" >>]
    /\ UNCHANGED << inputVars, estVars, cli, api, notSow >>

\* -------------------------------------------------------- TemplateManager

\* default_template of _create_default_template
DefaultTemplate ==
    Py("dict", [name |-> "standard", description |-> "Standard SOW template",
                sections |-> << "project_overview", "scope", "deliverables",
                                "timeline", "cost", "assumptions" >>])

\* the config arguments of create_template: a template's description, and
\* the empty dictionary
TemplateConfigs ==
    {Py("dict", [name |-> "custom", description |-> "Custom template for testing",
                 sections |-> << "overview" >>]),
     Py("dict", << >>)}

\* yaml.dump: the document of a value
yaml_dump(value) == [document |-> value.t, of |-> value.v]

\* yaml.safe_load: the value of a document; None for an empty file
yaml_safe_load(file) ==
    IF file.document = "empty" THEN PyNone ELSE Py(file.document, file.of)

\* the .yaml files a template directory may hold before the program runs
YamlFiles ==
    {yaml_dump(c) : c \in {DefaultTemplate} \cup TemplateConfigs}
    \cup {[document |-> "empty", of |-> << >>]}

\* one TemplateManager: the template directory (dir: it exists; yaml and j2:
\* its files by template name), self.templates, the exception of the last
\* call, and the directory and the map as they were before the last call
TmNew(pcv, dir, yaml, j2) ==
    [pc |-> pcv, dir |-> dir, yaml |-> yaml, j2 |-> j2, templates |-> << >>,
     calls |-> 0, call |-> << >>, error |-> << >>,
     before |-> [dir |-> dir, yaml |-> yaml, templates |-> << >>]]

\* TemplateManager.__init__ and _load_templates: a missing directory is
\* created with the default template; every .yaml file is loaded
TmLoadTemplates ==
    /\ mode = "templates"
    /\ tm.pc = "new"
    /\ LET created == ~tm.dir
           yaml == IF created
                   THEN ("standard" :> yaml_dump(DefaultTemplate)) @@ tm.yaml
                   ELSE tm.yaml
       IN  tm' = [tm EXCEPT
                    !.pc = "ready",
                    !.dir = TRUE,
                    !.yaml = yaml,
                    !.j2 = IF created THEN @ \cup {"standard"} ELSE @,
                    !.templates = [n \in DOMAIN yaml |-> yaml_safe_load(yaml[n])],
                    !.before = [dir |-> tm.dir, yaml |-> tm.yaml, templates |-> << >>]]
    /\ UNCHANGED << inputVars, estVars, cli, api, notTm >>

\* TemplateManager.list_templates
list_templates(templates) == DOMAIN templates

\* SOWService.get_template_info: templates.get(name), and ValueError when
\* that is None or empty
get_template_info(templates, template_name) ==
    LET template == IF template_name \in DOMAIN templates
                    THEN templates[template_name] ELSE PyNone
    IN  IF template.t = "none" \/ (template.t = "dict" /\ DOMAIN template.v = {})
        THEN ValueError(<< "Template ", template_name, " not found" >>)
        ELSE template

\* TemplateManager.create_template
TmCreateTemplate ==
    /\ mode = "templates"
    /\ tm.pc = "ready"
    /\ tm.calls < MaxCreates
    /\ \E name \in TemplateNames \ {"nonexistent"} : \E config \in TemplateConfigs :
          tm' = IF name \in DOMAIN tm.yaml
                THEN [tm EXCEPT
                        !.calls = @ + 1,
                        !.call = << name, config >>,
                        !.error = << "ValueError", "Template ", name, " already exists" >>,
                        !.before = [dir |-> tm.dir, yaml |-> tm.yaml,
                                    templates |-> tm.templates]]
                ELSE [tm EXCEPT
                        !.calls = @ + 1,
                        !.call = << name, config >>,
                        !.error = << >>,
                        !.yaml = (name :> yaml_dump(config)) @@ @,
                        !.templates = (name :> config) @@ @,
                        !.before = [dir |-> tm.dir, yaml |-> tm.yaml,
                                    templates |-> tm.templates]]
    /\ UNCHANGED << inputVars, estVars, cli, api, notTm >>

\* -------------------------------------------------------- DiagramService

\* the connections of a diagram configuration: dictionaries with or without
\* a 'from', a 'to' and a 'label' key ("" stands for a key that is left out)
Connections ==
    {[k \in {key \in {"from", "to", "label"} :
               [from |-> f, to |-> t, label |-> l][key] # ""} |->
         [from |-> f, to |-> t, label |-> l][k]] :
       f \in {"node1", "node2", ""}, t \in {"node1", "node2", ""},
       l \in {"Test Connection", ""}}

\* one call of _create_connections; edges are the edges created so far
DiagNew(pcv, nodes, connections) ==
    [pc |-> pcv, nodes |-> nodes, connections |-> connections, i |-> 1,
     edges |-> << >>]

connects_from_only(nodes, connection) ==
    {"from", "to"} \subseteq DOMAIN connection /\ connection.from \in nodes

\* _create_connections: `from_node in nodes and to_node in nodes`; the None
\* of a key that is left out is not a key of nodes
connects(nodes, connection) ==
    /\ "from" \in DOMAIN connection /\ connection.from \in nodes
    /\ "to" \in DOMAIN connection /\ connection.to \in nodes

\* _create_connections: one iteration of the loop, or the return after the
\* last one
DiagCreateConnection ==
    /\ mode = "diagram"
    /\ diagram.pc = "loop"
    /\ IF diagram.i > Len(diagram.connections)
       THEN diagram' = [diagram EXCEPT !.pc = "returned"]
       ELSE LET connection == diagram.connections[diagram.i]
                label == DictGet(connection, "label", "")
            IN  diagram' =
                  [diagram EXCEPT
                     !.i = @ + 1,
                     !.edges = IF connects(diagram.nodes, connection)
                               THEN Append(@, [from |-> connection.from,
                                               to |-> connection.to,
                                               label |-> label])
                               ELSE @]
    /\ UNCHANGED << inputVars, estVars, cli, api, notDiagram >>

\* ------------------------------------------- pyppeteer _safe_click alone

\* one call of _safe_click(page, selector) with the selector list of `step`
\* on a page `dom`; after the call: the alternatives evaluated, the active
\* one (0 for None), the clicks made and the result
ClickNew(pcv, step, dom) ==
    [pc |-> pcv, step |-> step, dom |-> dom, tried |-> << >>, active |-> 0,
     clicks |-> << >>, result |-> "none"]

PypSafeClickCall ==
    /\ mode = "safe_click"
    /\ safeClick.pc = "call"
    /\ LET n == Alternatives(safeClick.step)
           page == Evaluate(safeClick.step, safeClick.dom)
           active == FindActiveSelector(n, page)
       IN  \E found \in IF active # 0 THEN Waits ELSE {"element"} :
           \E ok \in IF active # 0 /\ found = "element" THEN BOOLEAN ELSE {TRUE} :
           \E js \in IF ok THEN {TRUE} ELSE BOOLEAN :
              safeClick' = [safeClick EXCEPT
                          !.pc = "returned",
                          !.tried = EvaluatedSelectors(n, page),
                          !.active = active,
                          !.clicks = PypClickMethods(n, page, found, ok, js),
                          !.result = PypSafeClick(n, page, found, ok, js)]
    /\ UNCHANGED << inputVars, estVars, cli, api, notClick >>

\* ------------------------------------------------- save_price_estimate

\* one call of save_price_estimate of the Selenium or the pyppeteer
\* calculator: the status of the result of get_price_estimate, the files
\* of output_dir written so far, what failed, and the dictionary returned
SaveNew(pcv, variant) ==
    [pc |-> pcv, variant |-> variant, estimate |-> "none", files |-> {},
     failed |-> "none", returned |-> << >>]

\* an exception at `at`: the Selenium variant has a try block around
\* get_price_estimate and the writes, whose handler returns an error
\* dictionary; the makedirs calls are before it, and the pyppeteer variant
\* has no try block
SaveRaised(s, at) ==
    IF s.variant = "selenium" /\ at # "makedirs"
    THEN [s EXCEPT !.pc = "returned", !.failed = at,
                   !.returned = [status |-> "error", price_data_path |-> FALSE,
                                 url_path |-> "url" \in s.files]]
    ELSE [s EXCEPT !.pc = "raised", !.failed = at]

\* os.makedirs of output_dir and of the debug directory
SavePrepare ==
    /\ mode = "save"
    /\ saveCall.pc = "start"
    /\ \E ok \in BOOLEAN :
          saveCall' = IF ok THEN [saveCall EXCEPT !.pc = "estimate"]
                  ELSE SaveRaised(saveCall, "makedirs")
    /\ UNCHANGED << inputVars, estVars, cli, api, notSave >>

\* the call of get_price_estimate: a result with status 'success' or
\* 'error', or an exception
SaveEstimate ==
    /\ mode = "save"
    /\ saveCall.pc = "estimate"
    /\ \E out \in {"success", "error", "raise"} :
          saveCall' = IF out = "raise" THEN SaveRaised(saveCall, "estimate")
                  ELSE [saveCall EXCEPT !.pc = "write", !.estimate = out]
    /\ UNCHANGED << inputVars, estVars, cli, api, notSave >>

\* the writes of the URL file and, for status 'success', of the price-data
\* file, and the return; a write that raises may leave its file behind
SaveWrite ==
    /\ mode = "save"
    /\ saveCall.pc = "write"
    /\ \E at \in {"url", "none"}
                 \cup (IF saveCall.estimate = "success" THEN {"data"} ELSE {}) :
       \E left \in IF at = "none" THEN {FALSE} ELSE BOOLEAN :
          LET files == (IF at # "url" \/ left THEN {"url"} ELSE {})
                       \cup (IF saveCall.estimate = "success"
                                /\ (at = "none" \/ (at = "data" /\ left))
                             THEN {"data"} ELSE {})
              written == [saveCall EXCEPT !.files = files]
          IN  saveCall' = IF at # "none" THEN SaveRaised(written, at)
                      ELSE [written EXCEPT
                              !.pc = "returned",
                              !.returned = [status |-> saveCall.estimate,
                                            price_data_path |-> saveCall.estimate = "success",
                                            url_path |-> TRUE]]
    /\ UNCHANGED << inputVars, estVars, cli, api, notSave >>

Modes == {"selenium", "pyppeteer", "cli", "api", "get_price", "total_cost", "web", "report",
          "sow", "templates", "diagram", "safe_click", "save"}

Init ==
    /\ mode \in Modes
    /\ IF Estimating
       THEN /\ resources \in SeqsUpTo(Services, MaxResources)
            /\ debug \in BOOLEAN
            /\ screenshot_path \in BOOLEAN
            /\ debug_dir \in BOOLEAN
            /\ pc = "start"
       ELSE /\ resources = << >>
            /\ debug = FALSE
            /\ screenshot_path = FALSE /\ debug_dir = FALSE
            /\ pc = "idle"
    /\ browser = "none" /\ status = "none" /\ raised = FALSE
    /\ failure = "none" /\ seen = NotSeen /\ manual = FALSE
    /\ attempted = << >> /\ addOk = << >> /\ artifacts = {}
    /\ errShot = FALSE /\ extracted = "none" /\ pricing = << >> /\ add = NoAdd
    /\ IF mode = "cli"
       THEN \E save \in BOOLEAN : cli = CliNew("start", save)
       ELSE cli = CliNew("idle", TRUE)
    /\ IF mode = "api"
       THEN \E ep \in {"from_file", "workflow", "workflow_file"} : api = ApiNew(ep)
       ELSE api = ApiNew("none")
    /\ IF mode = "get_price"
       THEN \E service \in DOMAIN PriceKeys : \E key \in PriceKeys[service] :
               price = PriceNew("call", service, key)
       ELSE price = PriceNew("idle", "ec2", "t3.medium")
    /\ IF mode = "total_cost"
       THEN \E input \in SeqsUpTo(CalcConfigs, MaxPriced) : calc = CalcNew("loop", input)
       ELSE calc = CalcNew("idle", << >>)
    /\ IF mode = "web"
       THEN \/ \E rs \in SeqsUpTo(WebConfigs, MaxConverted) :
                  web = WebNew("start", "generate_calculator_url", rs, << >>)
            \/ \E data \in EncodeInputs :
                  web = WebNew("encode", "_encode_calculator_data", << >>, << data >>)
       ELSE web = WebNew("idle", "none", << >>, << >>)
    /\ IF mode = "report"
       THEN \E rs \in SeqsUpTo(ReportConfigs, MaxPriced) : \E include_url \in BOOLEAN :
               report = ReportNew("start", rs, include_url)
       ELSE report = ReportNew("idle", << >>, FALSE)
    /\ IF mode = "sow"
       THEN \E template_name \in TemplateNames :
            \E templates \in SUBSET (TemplateNames \ {"nonexistent"}) :
            \E j2_files \in SUBSET (TemplateNames \ {"nonexistent"}) :
            \E out_dir \in BOOLEAN :
               sow = SowNew("ready", template_name, templates, j2_files, out_dir)
       ELSE sow = SowNew("idle", "standard", {}, {}, FALSE)
    /\ IF mode = "templates"
       THEN \/ tm = TmNew("new", FALSE, << >>, {})
            \/ \E names \in SUBSET (TemplateNames \ {"nonexistent"}) :
               \E yaml \in [names -> YamlFiles] :
                  tm = TmNew("new", TRUE, yaml, names)
       ELSE tm = TmNew("idle", FALSE, << >>, {})
    /\ IF mode = "diagram"
       THEN \E nodes \in {{}, {"node1"}, {"node1", "node2"}} :
            \E connections \in SeqsUpTo(Connections, MaxConnections) :
               diagram = DiagNew("loop", nodes, connections)
       ELSE diagram = DiagNew("idle", {}, << >>)
    /\ IF mode = "safe_click"
       THEN \E step \in PypClickSteps : \E dom \in Pages(step) :
               safeClick = ClickNew("call", step, dom)
       ELSE safeClick = ClickNew("idle", "click_add", << >>)
    /\ IF mode = "save"
       THEN \E variant \in {"selenium", "pyppeteer"} : saveCall = SaveNew("start", variant)
       ELSE saveCall = SaveNew("idle", "selenium")

Next ==
    \/ SelSetupDriver
    \/ PypLaunchBrowser
    \/ PypNewPage
    \/ EstNavigate
    \/ EstDebugPage
    \/ SelCheckTotal
    \/ PypWaitHeader
    \/ PypGotoBase
    \/ PypWaitHeaderAgain
    \/ EstLoop
    \/ SelLlmIteration
    \/ SelLlmExhausted
    \/ SelDetStep
    \/ PypDetStep
    \/ EstAttemptDone
    \/ PypWaitLoading
    \/ EstScreenshot
    \/ SelExtract
    \/ PypExtract
    \/ EstExcept
    \/ EstFinally
    \/ CliStart
    \/ CliGenerate
    \/ CliStep
    \/ CliSummary
    \/ \E r \in Requests : FromFileOpen(r)
    \/ \E r \in Requests : FromFileRest(r)
    \/ \E r \in Requests : WorkflowWriteNotes(r)
    \/ \E r \in Requests : WorkflowGenerate(r)
    \/ \E r \in Requests : WorkflowStep(r)
    \/ \E r \in Requests : WorkflowCleanup(r)
    \/ \E r \in Requests : WorkflowFileOpen(r)
    \/ \E r \in Requests : WorkflowFileRest(r)
    \/ GetPrice
    \/ CalcResource
    \/ CalcReturn
    \/ WebConvert
    \/ WebEncode
    \/ ReportCosts
    \/ ReportUrl
    \/ ReportReturn
    \/ SowCreateTemplate
    \/ SowValidate
    \/ SowMkdir
    \/ SowGenerate
    \/ TmLoadTemplates
    \/ TmCreateTemplate
    \/ DiagCreateConnection
    \/ PypSafeClickCall
    \/ SavePrepare
    \/ SaveEstimate
    \/ SaveWrite

Spec == Init /\ [][Next]_vars

\* One run of the Selenium get_price_estimate for a single resource.  The
\* calculator runs in one thread that never waits for another, and every
\* call it makes (WebDriver, Bedrock, time.sleep) returns or raises: a step
\* that can be taken is taken.
SelInit == Init /\ mode = "selenium" /\ Len(resources) = 1

SelNext ==
    \/ SelSetupDriver
    \/ EstNavigate
    \/ EstDebugPage
    \/ SelCheckTotal
    \/ EstLoop
    \/ SelLlmIteration
    \/ SelLlmExhausted
    \/ SelDetStep
    \/ EstAttemptDone
    \/ EstScreenshot
    \/ SelExtract
    \/ EstExcept
    \/ EstFinally

SelSpec == SelInit /\ [][SelNext]_vars /\ WF_vars(SelNext)

\* ------------------------------------------------------------ properties

NoDup(s) == \A i, j \in 1..Len(s) : i # j => s[i] # s[j]

IsPrefix(s, t) == Len(s) <= Len(t) /\ \A i \in 1..Len(s) : s[i] = t[i]

\* get_price_estimate has returned or raised
Returned == Estimating /\ pc = "done"

\* C1: every get_price_estimate that launched a browser has closed it when
\* it returns, on the success path and on every error path, for every
\* headless / debug setting.
C1_BrowserClosedOnReturn == Returned => browser # "open"

\* C2: whatever fails during a browser estimate (launch, page creation,
\* navigation, waits, extraction), get_price_estimate returns the 'error'
\* dictionary and no exception reaches the caller.
C2_FailureReturnsErrorDict ==
    Returned => /\ ~raised
                /\ failure # "none" => status = "error"

\* C3 (as claimed): an estimate that ends with status 'error' has saved
\* both a screenshot and a dump of the page HTML.
C3_ErrorSavesScreenshotAndHtml ==
    (Returned /\ status = "error") =>
        /\ artifacts \cap {"screenshot", "error_screenshot"} # {}
        /\ "page_html" \in artifacts

\* C3 (amended): with status 'error' the error screenshot was attempted
\* exactly when a screenshot_path was passed, and no step of the error
\* path writes the page HTML: an HTML dump exists only from a debug
\* capture, which needs debug mode.
C3_ErrorScreenshotOnlyIfRequested ==
    (Estimating /\ status = "error") =>
        /\ errShot <=> screenshot_path
        /\ "error_screenshot" \in artifacts => screenshot_path
        /\ "page_html" \in artifacts => debug

C3_Witness ==
    /\ Returned /\ status = "error" /\ ~debug
    /\ errShot /\ "error_screenshot" \in artifacts
    /\ "page_html" \notin artifacts

\* the manual add-service flow did something for some resource
AddStepPerformed == attempted # << >> \/ addOk # << >> \/ add # NoAdd

\* C4 (as claimed): in both calculators the manual add-service flow runs
\* if and only if the total-price element was not found within the wait
\* timeout (pyppeteer looks for the total-price selectors in its
\* 'loading_finished' wait); with the element found no add-service step
\* is performed.
C4_ManualIffTotalAbsent ==
    (Returned /\ status = "success") =>
        /\ manual <=> (IF mode = "selenium" THEN seen.total = "timeout"
                       ELSE seen.loading = "timeout")
        /\ ~manual => ~AddStepPerformed

\* C4 (amended): Selenium runs the manual flow if and only if its wait for
\* the total-price element timed out; pyppeteer runs it if and only if the
\* page header was missing after the generated URL and present after the
\* base URL, whatever becomes of the total-price element.  Without the
\* manual flow no add-service step is performed.
C4_ManualIffDecidingWaitFailed ==
    Estimating =>
        /\ mode = "selenium" => (manual <=> seen.total = "timeout")
        /\ mode = "pyppeteer" =>
               (manual <=> (seen.header = "timeout" /\ seen.header2 = "found"))
        /\ ~manual => ~AddStepPerformed

C4_Witness ==
    /\ Returned /\ status = "success" /\ mode = "pyppeteer"
    /\ manual /\ seen.loading = "found" /\ Len(addOk) = Len(resources)
    /\ resources # << >>

\* the LLM loop of the attempt in progress came to ask the LLM
LlmConsulted == add.iterations > 0

\* C5 (as claimed): the Selenium calculator asks the LLM for the next
\* action only after the deterministic flow was tried for the resource
\* and failed; never before it.
C5_LlmOnlyAfterDeterministic ==
    (mode = "selenium" /\ LlmConsulted) =>
        (add.detRuns > 0 /\ add.detResult = "False")

\* C5 (amended): the LLM loop comes first whenever the Bedrock probe
\* succeeded, with no deterministic step before it; the deterministic flow
\* runs only when the probe failed or after the LLM loop raised.
C5_DeterministicOnlyAsFallback ==
    mode = "selenium" =>
        /\ LlmConsulted => add.probe = "ok"
        /\ add.phase = "llm" => (add.detRuns = 0 /\ add.ran = {})
        /\ add.detRuns > 0 => (add.probe = "fail" \/ add.loopRaised)
        /\ add.probe = "fail" => add.iterations = 0

C5_Witness ==
    /\ mode = "selenium" /\ pc = "adding" /\ add.phase = "finished"
    /\ add.iterations > 1 /\ add.loopRaised /\ add.failedActs # {}
    /\ add.detRuns = 1 /\ add.detResult = "False"

LoopLeft == manual /\ pc \notin {"add_loop", "adding"}

\* C7: the manual fallback takes the resources one at a time in input
\* order and starts exactly one attempt for each; a failed attempt stops
\* neither the attempts for the later resources nor the price extraction.
C7_OneAttemptPerResourceInOrder ==
    Estimating =>
        /\ attempted = [i \in 1..Len(attempted) |-> i]
        /\ Len(attempted) <= Len(resources)
        /\ Len(addOk) <= Len(attempted) /\ Len(attempted) <= Len(addOk) + 1
        /\ pc = "adding" <=> Len(attempted) = Len(addOk) + 1
        /\ LoopLeft => (Len(attempted) = Len(resources)
                        /\ Len(addOk) = Len(resources))
        /\ (LoopLeft /\ pc \in {"finally", "done"} /\ extracted = "none")
               => failure \in {"screenshot", "wait"}

C7_Witness ==
    /\ Returned /\ manual /\ status = "success"
    /\ attempted = << 1, 2 >> /\ addOk = << FALSE, TRUE >>
    /\ extracted = "ok"

\* C8: concurrent API requests share no mutable state: of two overlapping
\* requests to POST /generate/from-file with the same filename, or to
\* POST /workflow/end-to-end with the same project name, each reads back
\* exactly what it wrote, and neither truncates, overwrites or deletes a
\* file the other still uses.
C8_RequestsShareNoFiles ==
    mode = "api" =>
        \A r \in Requests :
            /\ api.read[r] \subseteq {Holding(r)}
            /\ api.cfgRead[r] \subseteq {Holding(r)}
            /\ ~api.lost[r]

C10_ApiStepsFailIndependently ==
    (mode = "api" /\ api.endpoint = "workflow") =>
        \A r \in Requests :
            (api.rpc[r] = "done" /\ api.generated[r]) => api.steps[r] = CliOrder

\* ---- AWSPriceCalculator

\* C11: every PricingResult that calculate_resource_cost returns has
\* monthly_cost >= 0, and the total_monthly_cost that calculate_total_cost
\* returns is >= 0.
C11_CostNeverNegative ==
    /\ \A i \in 1..Len(calc.results) : calc.results[i].monthly_cost >= 0
    /\ \A ret \in Range(calc.returned) : ret.total_monthly_cost >= 0

RECURSIVE SumCosts(_, _)
SumCosts(entries, n) ==
    IF n = 0 THEN 0 ELSE SumCosts(entries, n - 1) + entries[n].monthly_cost

\* C12: the total_monthly_cost that calculate_total_cost returns is the sum
\* of the monthly_cost of its 'resources' entries, and that list has one
\* entry for each input resource, in input order (an empty input gives
\* total 0 and an empty list).
C12_TotalIsSumOfEntriesInOrder ==
    \A ret \in Range(calc.returned) :
        /\ ret.total_monthly_cost = SumCosts(ret.resources, Len(ret.resources))
        /\ Len(ret.resources) = Len(calc.input)
        /\ \A i \in 1..Len(calc.input) :
              ret.resources[i].type =
                  calculate_resource_cost(calc.input[i], NoResponse).resource_type
        /\ (calc.input = << >>) =>
              (ret.total_monthly_cost = 0 /\ ret.resources = << >>)

C12_Witness ==
    /\ mode = "total_cost"
    /\ calc.pc = "returned"
    /\ Len(calc.input) = 2
    /\ calc.input[1].service = "rds" /\ calc.input[2].service = "waf"
    /\ calc.returned[1].resources[1].monthly_cost # calc.returned[1].resources[2].monthly_cost
    /\ calc.returned[1].total_monthly_cost # 0

SupportedServices == {"ec2", "rds", "s3", "sqs", "cloudwatch", "waf"}

Unsupported(input) == {i \in 1..Len(input) : input[i].service \notin SupportedServices}

\* the smallest element of a non-empty set of numbers
Least(S) == CHOOSE i \in S : \A j \in S : i <= j

CalcEnded == mode = "total_cost" /\ calc.pc \in {"returned", "raised"}

Offered(response) ==
    IF response.raises THEN {}
    ELSE {response.PriceList[i].USD :
            i \in {k \in 1..Len(response.PriceList) :
                     /\ response.PriceList[k].kind = "usd"
                     /\ \A j \in 1..(k - 1) : response.PriceList[j].kind = "noterms"}}

DefaultPrice(service) ==
    CASE service = "ec2" -> 500 [] service = "rds" -> 1000 [] service = "s3" -> 230

C15_UnknownInstanceDefault ==
    (/\ mode = "get_price"
     /\ price.pc = "returned"
     /\ price.service = "ec2"
     /\ price.key \notin DOMAIN FALLBACK_PRICES.ec2) => price.result = 500

\* ---- AWSWebCalculator

\* the inverse conversions a reader of the URL applies: unquote, b64decode,
\* bytes.decode and json.loads

Base64Index ==
    [c \in Range(Base64Alphabet) \cup {"="} |->
        IF c = "=" THEN 0
        ELSE (CHOOSE i \in 1..64 : Base64Alphabet[i] = c) - 1]

\* base64.b64decode of text whose length is a multiple of 4
b64decode(text) ==
    LET n == Len(text)
        pads == Cardinality({j \in 1..n : text[j] = "="})
        Group(g) == Base64Index[text[4 * g + 1]] * 262144
                    + Base64Index[text[4 * g + 2]] * 4096
                    + Base64Index[text[4 * g + 3]] * 64
                    + Base64Index[text[4 * g + 4]]
    IN  AsSeq([i \in 1..(3 * (n \div 4) - pads) |->
                 LET g == (i - 1) \div 3
                     k == (i - 1) % 3
                 IN  (Group(g) \div << 65536, 256, 1 >>[k + 1]) % 256])

HexValue(c) == (CHOOSE i \in 1..16 : HexDigits[i] = c) - 1

\* TRUE when a %XX escape starts at position i of the text
EscapeAt(text, i) ==
    /\ i >= 1 /\ i + 2 <= Len(text)
    /\ text[i] = "%"
    /\ text[i + 1] \in Range(HexDigits) /\ text[i + 2] \in Range(HexDigits)

\* urllib.parse.unquote of the characters lo..hi of a text
RECURSIVE UnquoteRange(_, _, _)
UnquoteRange(text, lo, hi) ==
    IF lo > hi THEN << >>
    ELSE IF lo = hi
    THEN IF EscapeAt(text, lo)
         THEN << Chr(16 * HexValue(text[lo + 1]) + HexValue(text[lo + 2])) >>
         ELSE IF EscapeAt(text, lo - 1) \/ EscapeAt(text, lo - 2) THEN << >>
         ELSE << text[lo] >>
    ELSE LET mid == (lo + hi) \div 2
         IN  UnquoteRange(text, lo, mid) \o UnquoteRange(text, mid + 1, hi)

unquote(text) == UnquoteRange(text, 1, Len(text))

Digits == {"0", "1", "2", "3", "4", "5", "6", "7", "8", "9"}

\* the first position from i on where the text has no character of S (one
\* past the end when there is none)
RunEnd(text, i, S) ==
    CHOOSE j \in i..(Len(text) + 1) :
        /\ j = Len(text) + 1 \/ text[j] \notin S
        /\ \A k \in i..(j - 1) : text[k] \in S

RECURSIVE DigitsValue(_, _)
DigitsValue(text, n) ==
    IF n = 0 THEN 0
    ELSE 10 * DigitsValue(text, n - 1) + (Ord[text[n]] - 48)

\* json.loads, as [v |-> the value read, i |-> the position after it]: an
\* array is read as a list, an object as a dict with str keys
RECURSIVE ParseValue(_, _), ParseItems(_, _, _), ParsePairs(_, _, _)
ParseValue(text, at) ==
    LET i == RunEnd(text, at, {" "})
        c == text[i]
    IN  CASE c = "n" -> [v |-> PyNone, i |-> i + 4]
          [] c = "\"" ->
               LET close == RunEnd(text, i + 1, Range(Ascii) \ {"\""})
               IN  [v |-> Py("str", SubSeq(text, i + 1, close - 1)), i |-> close + 1]
          [] c = "[" -> ParseItems(text, i + 1, << >>)
          [] c = "{" -> ParsePairs(text, i + 1, << >>)
          [] c \in Digits \cup {"-"} ->
               LET first == IF c = "-" THEN i + 1 ELSE i
                   stop == RunEnd(text, first, Digits)
                   whole == DigitsValue(SubSeq(text, first, stop - 1), stop - first)
                   signed == IF c = "-" THEN 0 - whole ELSE whole
               IN  IF stop <= Len(text) /\ text[stop] = "."
                   THEN LET last == RunEnd(text, stop + 1, Digits)
                        IN  [v |-> Py("float",
                                      << signed,
                                         AsSeq([k \in 1..(last - stop - 1) |->
                                                  Ord[text[stop + k]] - 48]) >>),
                             i |-> last]
                   ELSE [v |-> Py("int", signed), i |-> stop]

ParseItems(text, at, items) ==
    LET i == RunEnd(text, at, {" ", ","})
    IN  IF text[i] = "]" THEN [v |-> Py("list", items), i |-> i + 1]
        ELSE LET item == ParseValue(text, i)
             IN  ParseItems(text, item.i, Append(items, item.v))

ParsePairs(text, at, items) ==
    LET i == RunEnd(text, at, {" ", ","})
    IN  IF text[i] = "}" THEN [v |-> Py("dict", items), i |-> i + 1]
        ELSE LET key == ParseValue(text, i)
                 colon == RunEnd(text, key.i, {" "})
                 value == ParseValue(text, colon + 1)
             IN  ParsePairs(text, value.i, Append(items, << key.v, value.v >>))

json_loads(text) == ParseValue(text, 1).v

\* URL-unquoting, then base64-decoding, then JSON-parsing an encoded text
Decoded(encoded) == json_loads(BytesDecode(b64decode(unquote(encoded))))

UrlPrefix == Text[CALCULATOR_BASE_URL] \o Text["?data="]

\* the data parameter of a URL
DataParameter(url) == SubSeq(url, Len(UrlPrefix) + 1, Len(url))

WebReturned == mode = "web" /\ web.pc = "returned"

RECURSIVE JsonNative(_)
JsonNative(value) ==
    CASE value.t \in {"none", "int", "float", "str"} -> TRUE
      [] value.t = "tuple" -> FALSE
      [] value.t = "list" -> \A i \in 1..Len(value.v) : JsonNative(value.v[i])
      [] value.t = "dict" ->
           \A i \in 1..Len(value.v) :
              value.v[i][1].t = "str" /\ JsonNative(value.v[i][2])

\* a value with every tuple turned into a list and every int key into the
\* string of its digits
RECURSIVE JsonForm(_)
JsonForm(value) ==
    CASE value.t \in {"none", "int", "float", "str"} -> value
      [] value.t \in {"list", "tuple"} ->
           Py("list", [i \in 1..Len(value.v) |-> JsonForm(value.v[i])])
      [] value.t = "dict" ->
           Py("dict", [i \in 1..Len(value.v) |->
                     << IF value.v[i][1].t = "int"
                        THEN Py("str", IntText(value.v[i][1].v))
                        ELSE value.v[i][1],
                        JsonForm(value.v[i][2]) >>])

PyGet(dict, key) ==
    dict.v[CHOOSE i \in 1..Len(dict.v) : dict.v[i][1] = Str(key)][2]

\* SERVICE_CODE_MAP: the calculator's code of the services that convert
SERVICE_CODE_MAP == [ec2 |-> "AmazonEC2", rds |-> "AmazonRDS", s3 |-> "AmazonS3"]

\* the positions of the input resources whose service converts
Convertible(rs) == {i \in 1..Len(rs) : rs[i].service \in DOMAIN SERVICE_CODE_MAP}

\* the position of the k-th of them
NthConvertible(rs, k) ==
    CHOOSE i \in Convertible(rs) : Cardinality({j \in Convertible(rs) : j <= i}) = k

WebConverted ==
    mode = "web" /\ web.call = "generate_calculator_url" /\ web.pc \in {"encode", "returned"}

\* the 'resources' list of the estimate
EstimateResources == PyGet(PyGet(web.data[1], "estimate"), "resources").v

\* C17: the 'resources' list of the estimate that
\* convert_resources_to_calculator_format returns holds one entry for each
\* input resource whose service is ec2, rds or s3, in input order; a
\* resource of another service converts to None and is left out.
C17_OneEntryPerConvertibleInOrder ==
    /\ \A r \in WebConfigs :
          (r.service \notin {"ec2", "rds", "s3"}) =>
              convert_resource_to_calculator_format(r) = << >>
    /\ WebConverted =>
          /\ Len(EstimateResources) = Cardinality(Convertible(web.resources))
          /\ \A k \in 1..Len(EstimateResources) :
                LET r == web.resources[NthConvertible(web.resources, k)]
                    entry == EstimateResources[k]
                IN  /\ PyGet(entry, "service") = Str(SERVICE_CODE_MAP[r.service])
                    /\ PyGet(entry, "tags") = Str(r.resource_type)
                    /\ << entry >> = convert_resource_to_calculator_format(r)

C17_Witness ==
    /\ WebConverted
    /\ Len(web.resources) = 2
    /\ web.resources[1].service = "sqs"
    /\ web.resources[2].service = "s3"
    /\ Len(EstimateResources) = 1
    /\ PyGet(EstimateResources[1], "service") = Str("AmazonS3")

\* the characters of an instance type before its first "."
InstanceFamily(instance_type) ==
    SubSeq(Text[instance_type], 1, RunEnd(Text[instance_type], 1, Range(Ascii) \ {"."}) - 1)

\* C18: the single cost component that _convert_ec2_to_calculator_format
\* produces has 'family' equal to the instance family and 'type' equal to
\* the instance type of the resource, 'monthlyQuantity' equal to
\* usage_hours and 'region' equal to the region of the resource.
C18_Ec2ComponentNamesInstance ==
    WebConverted =>
        \A k \in 1..Len(EstimateResources) :
            LET r == web.resources[NthConvertible(web.resources, k)]
                components == PyGet(EstimateResources[k], "costComponents").v
            IN  (r.service = "ec2") =>
                    /\ Len(components) = 1
                    /\ PyGet(components[1], "family") = Py("str", InstanceFamily(r.specs["instance_type"]))
                    /\ PyGet(components[1], "type") = Str(r.specs["instance_type"])
                    /\ PyGet(components[1], "monthlyQuantity") = r.usage_hours
                    /\ PyGet(components[1], "region") = Str(r.region)

\* ---- PricingService

\* C19: the result of generate_cost_report has the keys 'costs' and
\* 'report', and 'calculator_url' if and only if include_url is true;
\* generate_calculator_url is called once, with the same resources, when
\* include_url is true and not at all when it is false.
C19_UrlIffRequested ==
    /\ (mode = "report" /\ report.pc = "returned") =>
          /\ {"costs", "report"} \subseteq report.result
          /\ ("calculator_url" \in report.result) <=> report.include_url
          /\ report.url_calls = IF report.include_url
                                THEN << report.resources >> ELSE << >>
    /\ mode = "report" =>
          /\ Len(report.url_calls) <= 1
          /\ ~report.include_url => report.url_calls = << >>

C19_Witness ==
    /\ mode = "report"
    /\ report.pc = "returned"
    /\ report.include_url
    /\ Len(report.resources) = 2
    /\ report.result = {"costs", "report", "calculator_url"}
    /\ report.url_calls = << report.resources >>

\* ---- SOWService

\* C20: create_sow with a template name that is not a loaded template, or
\* that has no <name>.j2 file, raises ValueError 'Template <name> not found
\* or invalid' before the output directory is created and without writing
\* an output file.
C20_InvalidTemplateRaisesFirst ==
    (/\ mode = "sow"
     /\ sow.pc # "ready"
     /\ sow.template_name \notin sow.templates \/ sow.template_name \notin sow.j2_files) =>
        /\ sow.pc = "raised"
        /\ sow.error = << "ValueError", "Template ", sow.template_name,
                          " not found or invalid" >>
        /\ sow.out_dir = sow.out_dir_before
        /\ ~sow.out_file

C20_Witness ==
    /\ mode = "sow"
    /\ sow.pc = "raised"
    /\ sow.template_name = "custom"
    /\ "custom" \in sow.templates
    /\ "custom" \notin sow.j2_files
    /\ ~sow.out_dir
    /\ ~sow.out_file

\* ---- TemplateManager

\* TRUE when a SOWService was constructed and no template was created since
NewlyConstructed == mode = "templates" /\ tm.pc = "ready" /\ tm.calls = 0

\* C21: a newly constructed SOWService lists the 'standard' template and
\* returns its info (name, description, sections), when the template
\* directory did not exist and when it existed and held no templates
C21_NewServiceListsStandard ==
    (NewlyConstructed /\ (~tm.before.dir \/ DOMAIN tm.before.yaml = {}))
        => /\ "standard" \in list_templates(tm.templates)
           /\ LET info == get_template_info(tm.templates, "standard")
              IN  /\ info.t = "dict"
                  /\ {"name", "description", "sections"} \subseteq DOMAIN info.v
                  /\ info.v.name = "standard"

\* TRUE when the last call was a create_template
Created == mode = "templates" /\ tm.calls > 0

\* C22: create_template(name, config) for a name without a .yaml file lists
\* the name and makes get_template_info(name) return config; for a name with
\* a .yaml file it raises ValueError and leaves the template map and the
\* files as they were; a listed template is never removed or replaced
C22_CreateTemplateAddsOrRaises ==
    Created =>
        LET name == tm.call[1]
            config == tm.call[2]
        IN  /\ name \notin DOMAIN tm.before.yaml
                 => /\ name \in list_templates(tm.templates)
                    /\ get_template_info(tm.templates, name) = config
            /\ name \in DOMAIN tm.before.yaml
                 => /\ tm.error # << >> /\ tm.error[1] = "ValueError"
                    /\ tm.templates = tm.before.templates
                    /\ tm.yaml = tm.before.yaml
            /\ \A n \in DOMAIN tm.before.templates :
                  /\ n \in DOMAIN tm.templates
                  /\ tm.templates[n] = tm.before.templates[n]

\* ---- DiagramService

\* the connections among the first n whose two endpoints are node names
Connected(n) ==
    SelectSeq(SubSeq(diagram.connections, 1, n),
              LAMBDA c : /\ {"from", "to"} \subseteq DOMAIN c
                         /\ {c.from, c.to} \subseteq diagram.nodes)

\* C23: _create_connections creates an edge for a connection only when its
\* 'from' and its 'to' name are both keys of the node map; a connection
\* with a missing endpoint is skipped, nothing is raised, and the
\* connections after it are processed: the edges are those of the connected
\* connections, in order, and the call returns after the last connection
C23_EdgesOnlyBetweenKnownNodes ==
    mode = "diagram" =>
        /\ diagram.pc \in {"loop", "returned"}
        /\ diagram.pc = "returned" => diagram.i = Len(diagram.connections) + 1
        /\ LET done == Connected(diagram.i - 1)
           IN  /\ Len(diagram.edges) = Len(done)
               /\ \A k \in 1..Len(done) :
                     /\ diagram.edges[k].from = done[k].from
                     /\ diagram.edges[k].to = done[k].to

\* a call that skipped a connection with a missing endpoint and created the
\* edge of the connection after it
C23_Witness ==
    /\ mode = "diagram"
    /\ diagram.pc = "returned"
    /\ Len(diagram.connections) = 2
    /\ ~connects(diagram.nodes, diagram.connections[1])
    /\ "from" \in DOMAIN diagram.connections[1]
    /\ diagram.connections[1].from \in diagram.nodes
    /\ Len(diagram.edges) = 1
    /\ diagram.edges[1].to = diagram.connections[2].to

\* ---- CLI workflow end-to-end (continued)

\* the exit code of the command: click.Abort() exits with 1
CliExitCode == IF cli.exit = "abort" THEN 1 ELSE 0

CliServicesSucceeded ==
    /\ cli.generated
    /\ \A k \in 1..Len(cli.ats) :
          \/ cli.ats[k] = "none"
          \/ cli.ats[k] = "service" /\ cli.steps[k] \notin Range(cli.calls)

\* C25: when every service call succeeds, the workflow generates the SOW
\* configuration and produces the SOW document, the diagram and the price
\* estimate, with and without --save-configs, and without --save-configs
\* it leaves no temporary configuration file
C25_AllDeliverablesProduced ==
    (mode = "cli" /\ cli.pc = "done" /\ CliServicesSucceeded) =>
        /\ cli.sow_config = "dict"
        /\ cli.outputs = Range(CliOrder)
        /\ ~cli.save_configs => cli.temp = {}

\* ---- _add_service_manually_with_llm

\* what holds of the LLM loop in every state
LlmLoopBounded ==
    /\ add.iterations <= max_iterations
    /\ add.phase = "finished" =>
          /\ add.why = "complete" => add.result = "True" /\ add.iterations >= 1
          /\ add.why = "error" => add.result = "False" /\ add.iterations >= 1
          /\ add.why = "exhausted" =>
                add.result = "False" /\ add.iterations = max_iterations

\* C26: _add_service_manually_with_llm always terminates: it asks the LLM
\* for at most 15 actions per resource, returns True on the answer
\* 'complete', False on the answer 'error', and False after the 15th action
\* that is neither, whatever the LLM answers and whether the actions fail
C26_LlmLoopTerminates ==
    /\ []LlmLoopBounded
    /\ (add.phase = "llm") ~> (add.phase = "finished")

\* the loop returned False after 15 actions, one of which failed and one of
\* which was a wait
C26_Witness ==
    /\ add.phase = "finished" /\ add.why = "exhausted"
    /\ add.iterations = max_iterations
    /\ add.failedActs # {}

\* ---- pyppeteer _find_active_selector and _safe_click

\* C27: _find_active_selector tries the alternatives in list order and
\* returns the first that matches an element of the page, skipping one
\* whose evaluation raises; it returns None only when no alternative
\* matches, and then _safe_click returns False without clicking
C27_FirstMatchingAlternative ==
    (mode = "safe_click" /\ safeClick.pc = "returned") =>
        LET n == Alternatives(safeClick.step)
            page == Evaluate(safeClick.step, safeClick.dom)
        IN  /\ IsPrefix(safeClick.tried, [i \in 1..n |-> i])
            /\ safeClick.active # 0 =>
                  /\ safeClick.dom[safeClick.active] = "match"
                  /\ \A j \in 1..(safeClick.active - 1) :
                        safeClick.dom[j] # "match" \/ page[j] = "raise"
            /\ safeClick.active = 0 =>
                  /\ \A j \in 1..n : safeClick.dom[j] # "match"
                  /\ safeClick.result = "fail" /\ safeClick.clicks = << >>

\* ---- save_price_estimate

\* C28: whenever get_price_estimate returned a result, save_price_estimate
\* writes the URL file, writes the price-data file only for status
\* 'success', and reports price_data_path exactly for status 'success';
\* the Selenium variant never raises, and returns a dictionary with status
\* 'error' when get_price_estimate or a write raised
C28_SaveWritesAndReports ==
    mode = "save" =>
        /\ "data" \in saveCall.files => saveCall.estimate = "success"
        /\ (saveCall.pc = "returned" /\ saveCall.failed = "none") =>
              /\ "url" \in saveCall.files
              /\ saveCall.returned.status = saveCall.estimate
              /\ saveCall.returned.price_data_path <=> saveCall.estimate = "success"
        /\ saveCall.variant = "selenium" =>
              /\ saveCall.pc # "raised"
              /\ (saveCall.pc = "returned" /\ saveCall.failed # "none") =>
                    saveCall.returned.status = "error"

\* ---- temporary files of the API endpoints

\* every request of the run has been answered
AllAnswered == \A r \in Requests : api.rpc[r] = "done"

\* C29: once the requests of an endpoint are answered, with success or
\* with HTTP 500, the temporary files they wrote are removed:
\* temp/<filename> of POST /generate/from-file and of POST
\* /workflow/end-to-end/file, and <name>_notes.txt of POST
\* /workflow/end-to-end
C29_TempFilesRemoved ==
    (mode = "api" /\ AllAnswered) => ~api.file.exists /\ ~api.upload.exists

\* ---- status of the Selenium estimate

\* C30: a Selenium get_price_estimate that returns without an exception
\* having reached its except clause returns status 'success', whatever
\* the add-service attempts of the manual flow returned and whether or not
\* the price extraction failed; after a failed extraction the result has
\* total_monthly_cost 0 and no services
C30_SuccessDespiteFailures ==
    (mode = "selenium" /\ Returned /\ ~raised) =>
        /\ failure \in {"none", "extract"} => status = "success"
        /\ extracted = "failed" =>
              /\ status = "success"
              /\ pricing.total_monthly_cost = 0
              /\ pricing.services = << >>

C30_Witness ==
    /\ mode = "selenium" /\ Returned /\ ~raised
    /\ manual /\ addOk = << FALSE, FALSE >>
    /\ extracted = "failed" /\ status = "success"
    /\ pricing.total_monthly_cost = 0

====
